---- MODULE Spec2Model ----
(***************************************************************************)
(* A model of the two pipelines of promo-vid-gen:                          *)
(*                                                                         *)
(*   - AgnoVideoWorkflow.generate_promotional_video                        *)
(*     (backend/src/workflows/agno_video_workflow.py), specification Spec; *)
(*   - VideoWorkflow.run with its four agents MapParserAgent,              *)
(*     MenuExtractorAgent, ScriptGeneratorAgent and VideoGeneratorAgent    *)
(*     (backend/src/workflows/video_workflow.py, backend/src/agents/*.py), *)
(*     specification SpecVW.                                               *)
(*                                                                         *)
(* Both are asyncio coroutines running alone on their event loop: the code *)
(* between two awaits is atomic, so one action is one resumption of the    *)
(* coroutine, from the completion of the awaited call to the next await    *)
(* (or to the return).  Python dicts are functions from keys to values, a  *)
(* key being present exactly when it is in the DOMAIN.                     *)
(***************************************************************************)
EXTENDS Integers, Sequences, FiniteSets, TLC

VARIABLES
    \* ---- AgnoVideoWorkflow.generate_promotional_video ----
    pc,                 \* the await the coroutine is suspended at, "idle" or "returned"
    video_style,        \* the video_style argument
    workflow_results,   \* the dict of that name; its "results" hold references
    locals,             \* the dict objects held by the local variables
                        \* restaurant_data, menu_data, script_data, production_plan
    calls,              \* history: the agent calls made so far, in order
    started,            \* history: the phases set to "in_progress" so far, in order
    raised,             \* history: str(e) of the exception the try block ended with, or ""
    \* ---- VideoWorkflow.run / run_step and the four agents ----
    vpc,                \* <<who, where>>: the code that runs next
    entry,              \* "run" or "run_step": the method called ("none" before the call)
    step,               \* run_step's step argument
    input_data,         \* the dict the method was called with
    task_id,            \* run's local task_id
    outputs,            \* run's locals restaurant_info, menu_data, script_data, video_result
    agent_input,        \* the dict the agent now running was called with
    agent_out,          \* how that agent's run ended: [kind, value] or [kind, error]
    tmp,                \* the locals of the agent now running
    fs,                 \* the files that exist: path -> content
    result,             \* how the method ended: [kind |-> "return", value] or [kind |-> "raise", error]
    agent_calls,        \* history: the agents invoked so far, in order
    agent_returns,      \* history: the agents that returned normally, in order
    trace,              \* history: what the external services did, per agent sub-step
    \* ---- agent_os_server and RestaurantDataTools ----
    server,             \* "down", "serving", or "failed" when the import raised
    workflows,          \* the workflows given to AgentOS, in order
    response,           \* the body of the last endpoint response
    tool_call,          \* the last tool call: the tool and its arguments
    tool_result,        \* how that call ended: [kind |-> "return", value] or [kind |-> "raise", error]
    tool_trace          \* history: the Places API calls that call made and how they ended

agnoVars == <<pc, video_style, workflow_results, locals, calls, started, raised>>

vwVars == <<vpc, entry, step, input_data, task_id, outputs, agent_input, agent_out, tmp, fs,
            result, agent_calls, agent_returns, trace>>

osVars == <<server, workflows, response, tool_call, tool_result, tool_trace>>

vars == <<pc, video_style, workflow_results, locals, calls, started, raised,
          vpc, entry, step, input_data, task_id, outputs, agent_input, agent_out, tmp, fs,
          result, agent_calls, agent_returns, trace,
          server, workflows, response, tool_call, tool_result, tool_trace>>

-----------------------------------------------------------------------------
(* Python dict operations *)

EmptyDict == <<>>

Put(d, k, v) == [x \in (DOMAIN d) \cup {k} |-> IF x = k THEN v ELSE d[x]]

Get(d, k, default) == IF k \in DOMAIN d THEN d[k] ELSE default

Last(s) == s[Len(s)]

-----------------------------------------------------------------------------
(* AgnoVideoWorkflow: the agents' results *)

\* The text an LLM agent run answers with (response.content), kept abstract.
Contents == {"content"}

\* str(e) of the exception an agent run ended with.
ErrTexts == {"timeout", "rate limit"}

VideoStyles == {"casual", "professional"}

MapsUrls == {"https://maps.app.goo.gl/x"}

PhaseOrder == <<"restaurant_data", "menu_analysis", "content_creation", "video_production">>

Phases == {PhaseOrder[i] : i \in 1..Len(PhaseOrder)}

PhaseIndex(p) == CHOOSE i \in 1..Len(PhaseOrder) : PhaseOrder[i] = p

\* The key of workflow_results["results"] a phase stores its output under.
ResultKey(p) ==
    CASE p = "restaurant_data"  -> "restaurant_data"
      [] p = "menu_analysis"    -> "menu_data"
      [] p = "content_creation" -> "content_data"
      [] p = "video_production" -> "video_production"

\* The local variable whose dict a phase stores.
ResultLocal(p) ==
    CASE p = "restaurant_data"  -> "restaurant_data"
      [] p = "menu_analysis"    -> "menu_data"
      [] p = "content_creation" -> "script_data"
      [] p = "video_production" -> "production_plan"

\* The agent calls of each phase, the primary call first.
PhaseCalls(p) ==
    CASE p = "restaurant_data"  -> <<"extract_restaurant_data", "analyze_restaurant_characteristics">>
      [] p = "menu_analysis"    -> <<"extract_menu_data", "recommend_featured_items">>
      [] p = "content_creation" -> <<"generate_video_script", "create_social_media_content">>
      [] p = "video_production" -> <<"plan_video_production", "prepare_voiceover_generation",
                                     "generate_production_summary">>

PrimaryCall(p) == PhaseCalls(p)[1]

PhaseOfCall(c) ==
    CHOOSE p \in Phases : \E i \in 1..Len(PhaseCalls(p)) : PhaseCalls(p)[i] = c

\* An agent method: try: ... arun ... return {"status": "success", <key>: content, <flag>: True}
\* except Exception as e: return {"status": "error", "error": str(e), <flag>: False}
AgentResults(key, flag) ==
    {[x \in {"status", key, flag} |->
        IF x = "status" THEN "success" ELSE IF x = key THEN c ELSE TRUE] : c \in Contents}
    \cup
    {[x \in {"status", "error", flag} |->
        IF x = "status" THEN "error" ELSE IF x = "error" THEN e ELSE FALSE] : e \in ErrTexts}

ExtractRestaurantDataResults == AgentResults("agent_response", "data_extracted")

AnalyzeRestaurantCharacteristicsResults == AgentResults("analysis", "recommendations_provided")

ExtractMenuDataResults(website_url) ==
    IF website_url = ""
    THEN {[status |-> "skipped",
           message |-> "No website URL provided - will focus on restaurant information instead",
           menu_extracted |-> FALSE]}
    ELSE AgentResults("agent_response", "menu_extracted")

RecommendFeaturedItemsResults == AgentResults("recommendations", "featured_items_selected")

GenerateVideoScriptResults(style) ==
    {[status |-> "success", script |-> c, style |-> style, script_generated |-> TRUE] :
        c \in Contents}
    \cup
    {[status |-> "error", error |-> e, script_generated |-> FALSE] : e \in ErrTexts}

\* create_social_media_content(restaurant_data): target_platform defaults to "instagram"
CreateSocialMediaContentResults ==
    {IF r["status"] = "success" THEN Put(r, "platform", "instagram") ELSE r :
        r \in AgentResults("social_content", "content_created")}

PlanVideoProductionResults == AgentResults("production_plan", "plan_created")

PrepareVoiceoverGenerationResults(script_text, voice_style) ==
    {IF r["status"] = "success" THEN Put(r, "voice_style", voice_style) ELSE r :
        r \in AgentResults("voiceover_plan", "voiceover_prepared")}

GenerateProductionSummaryResults == AgentResults("production_summary", "summary_generated")

-----------------------------------------------------------------------------
(* AgnoVideoWorkflow: helpers *)

InitialWorkflowResults ==
    [status  |-> "in_progress",
     phases  |-> [p \in Phases |-> [completed |-> FALSE]],
     results |-> EmptyDict]

\* workflow_results["phases"][phase]["status"] = s
SetPhaseStatus(wr, phase, s) ==
    [wr EXCEPT !.phases = [@ EXCEPT ![phase] = Put(@, "status", s)]]

\* A phase's output is never stored.
StoreResult_Forgotten(wr, phase) == wr

\* workflow_results["results"][key] = <the local's dict>
StoreResult(wr, phase) ==
    [wr EXCEPT !.results = Put(@, ResultKey(phase), ResultLocal(phase))]

\* Only the status is set, the completed flag is left False.
MarkCompleted_StatusOnly(wr, phase) == SetPhaseStatus(wr, phase, "completed")

\* workflow_results["phases"][phase]["completed"] = True; ...["status"] = "completed"
MarkCompleted(wr, phase) ==
    SetPhaseStatus([wr EXCEPT !.phases = [@ EXCEPT ![phase] = Put(@, "completed", TRUE)]],
                   phase, "completed")

CompletePhase(wr, phase) == MarkCompleted(StoreResult(wr, phase), phase)

\* The value is attached to restaurant_data whatever the local meant.
SetItem_OnRestaurantData(ls, local, key, value) ==
    [ls EXCEPT !["restaurant_data"] = Put(@, key, value)]

\* A result with status "error" is not attached.
SetItem_DropsErrors(ls, local, key, value) ==
    IF value["status"] = "error" THEN ls ELSE [ls EXCEPT ![local] = Put(@, key, value)]

\* <local>[key] = value
SetItem(ls, local, key, value) == [ls EXCEPT ![local] = Put(@, key, value)]

\* The status of a stage's primary call is never inspected.
StageFailed_Unchecked(stage_result) == FALSE

\* if <result>["status"] != "success": return self._handle_workflow_error(...)
StageFailed(stage_result) == stage_result["status"] # "success"

_extract_website_url(restaurant_data) ==
    IF "agent_response" \in DOMAIN restaurant_data THEN "" ELSE ""

_extract_script_text(script_data) ==
    IF "script" \in DOMAIN script_data
    THEN script_data["script"]
    ELSE "No script content available"

\* The failed phase keeps the status it had.
_handle_workflow_error_KeepsPhaseStatus(phase, error_data, wr) ==
    Put(Put(Put(wr, "status", "error"), "failed_phase", phase),
        "error", Get(error_data, "error", "Unknown error"))

_handle_workflow_error(phase, error_data, wr) ==
    SetPhaseStatus(
        Put(Put(Put(wr, "status", "error"), "failed_phase", phase),
            "error", Get(error_data, "error", "Unknown error")),
        phase, "failed")

phase_times ==
    [restaurant_data |-> 45, menu_analysis |-> 60, content_creation |-> 90,
     video_production |-> 120]

RECURSIVE SumOver(_, _)
SumOver(f, S) ==
    IF S = {} THEN 0 ELSE LET x == CHOOSE y \in S : TRUE IN f[x] + SumOver(f, S \ {x})

_estimate_total_time(wr) ==
    LET total_estimated == SumOver(phase_times, DOMAIN phase_times)
    IN  [total_seconds |-> total_estimated,
         formatted |-> <<total_estimated \div 60, "m", total_estimated % 60, "s">>,
         phase_breakdown |-> phase_times]

-----------------------------------------------------------------------------
(* AgnoVideoWorkflow.generate_promotional_video *)

\* Issue the next agent call: the coroutine suspends at its await.
Await(call) ==
    /\ pc' = call
    /\ calls' = Append(calls, call)
    /\ UNCHANGED raised
    /\ UNCHANGED vwVars
    /\ UNCHANGED osVars

Return ==
    /\ pc' = "returned"
    /\ UNCHANGED <<calls, raised>>
    /\ UNCHANGED vwVars
    /\ UNCHANGED osVars

StartPhase(wr, phase) == SetPhaseStatus(wr, phase, "in_progress")

\* Lines 35-51: called; builds workflow_results, starts phase 1.
GeneratePromotionalVideo ==
    /\ pc = "idle"
    /\ \E url \in MapsUrls, style \in VideoStyles :
         /\ video_style' = style
         /\ workflow_results' = StartPhase(InitialWorkflowResults, "restaurant_data")
    /\ started' = Append(started, "restaurant_data")
    /\ Await("extract_restaurant_data")
    /\ UNCHANGED locals

\* Lines 51-57
ExtractRestaurantDataReturns ==
    /\ pc = "extract_restaurant_data"
    /\ \E restaurant_data \in ExtractRestaurantDataResults :
         /\ locals' = Put(locals, "restaurant_data", restaurant_data)
         /\ IF StageFailed(restaurant_data)
            THEN /\ workflow_results' =
                       _handle_workflow_error("restaurant_data", restaurant_data, workflow_results)
                 /\ Return
            ELSE /\ Await("analyze_restaurant_characteristics")
                 /\ UNCHANGED workflow_results
    /\ UNCHANGED <<video_style, started>>

\* Lines 57-71
AnalyzeRestaurantCharacteristicsReturns ==
    /\ pc = "analyze_restaurant_characteristics"
    /\ \E restaurant_analysis \in AnalyzeRestaurantCharacteristicsResults :
         locals' = SetItem(locals, "restaurant_data", "analysis", restaurant_analysis)
    /\ workflow_results' =
           StartPhase(CompletePhase(workflow_results, "restaurant_data"), "menu_analysis")
    /\ started' = Append(started, "menu_analysis")
    /\ Await("extract_menu_data")
    /\ UNCHANGED video_style

\* Lines 71-74
ExtractMenuDataReturns ==
    /\ pc = "extract_menu_data"
    /\ \E menu_data \in ExtractMenuDataResults(_extract_website_url(locals["restaurant_data"])) :
         locals' = Put(locals, "menu_data", menu_data)
    /\ Await("recommend_featured_items")
    /\ UNCHANGED <<video_style, workflow_results, started>>

\* Lines 74-87
RecommendFeaturedItemsReturns ==
    /\ pc = "recommend_featured_items"
    /\ \E featured_items \in RecommendFeaturedItemsResults :
         locals' = SetItem(locals, "menu_data", "featured_items", featured_items)
    /\ workflow_results' =
           StartPhase(CompletePhase(workflow_results, "menu_analysis"), "content_creation")
    /\ started' = Append(started, "content_creation")
    /\ Await("generate_video_script")
    /\ UNCHANGED video_style

\* Lines 85-93
GenerateVideoScriptReturns ==
    /\ pc = "generate_video_script"
    /\ \E script_data \in GenerateVideoScriptResults(video_style) :
         /\ locals' = Put(locals, "script_data", script_data)
         /\ IF StageFailed(script_data)
            THEN /\ workflow_results' =
                       _handle_workflow_error("content_creation", script_data, workflow_results)
                 /\ Return
            ELSE /\ Await("create_social_media_content")
                 /\ UNCHANGED workflow_results
    /\ UNCHANGED <<video_style, started>>

\* Lines 93-104
CreateSocialMediaContentReturns ==
    /\ pc = "create_social_media_content"
    /\ \E social_content \in CreateSocialMediaContentResults :
         locals' = SetItem(locals, "script_data", "social_content", social_content)
    /\ workflow_results' =
           StartPhase(CompletePhase(workflow_results, "content_creation"), "video_production")
    /\ started' = Append(started, "video_production")
    /\ Await("plan_video_production")
    /\ UNCHANGED video_style

\* Lines 104-111
PlanVideoProductionReturns ==
    /\ pc = "plan_video_production"
    /\ \E production_plan \in PlanVideoProductionResults :
         /\ locals' = Put(locals, "production_plan", production_plan)
         /\ IF StageFailed(production_plan)
            THEN /\ workflow_results' =
                       _handle_workflow_error("video_production", production_plan, workflow_results)
                 /\ Return
            ELSE /\ Await("prepare_voiceover_generation")
                 /\ UNCHANGED workflow_results
    /\ UNCHANGED <<video_style, started>>

\* Lines 111-120
PrepareVoiceoverGenerationReturns ==
    /\ pc = "prepare_voiceover_generation"
    /\ \E voiceover_plan \in PrepareVoiceoverGenerationResults(
                                _extract_script_text(locals["script_data"]), video_style) :
         locals' = SetItem(locals, "production_plan", "voiceover", voiceover_plan)
    /\ Await("generate_production_summary")
    /\ UNCHANGED <<video_style, workflow_results, started>>

\* Lines 115-132
GenerateProductionSummaryReturns ==
    /\ pc = "generate_production_summary"
    /\ \E production_summary \in GenerateProductionSummaryResults :
         locals' = SetItem(locals, "production_plan", "summary", production_summary)
    /\ LET done == Put(CompletePhase(workflow_results, "video_production"), "status", "completed")
       IN  workflow_results' = Put(done, "completion_time", _estimate_total_time(done))
    /\ Return
    /\ UNCHANGED <<video_style, started>>

\* str(e) of an exception that leaves an awaited agent call: the agents catch
\* Exception themselves, so it is one raised past their handlers.
ExcTexts == {"maximum recursion depth exceeded"}

\* The exception leaves generate_promotional_video.
HandleException_Propagates(e) ==
    /\ pc' = "raised"
    /\ UNCHANGED workflow_results

\* The handler reports the phase being executed as the failed phase.
HandleException_NamesPhase(e) ==
    /\ workflow_results' = _handle_workflow_error(PhaseOfCall(pc), [error |-> e], workflow_results)
    /\ pc' = "returned"

\* Lines 134-138: except Exception as e: status = "error", error = str(e), return
HandleException(e) ==
    /\ workflow_results' = Put(Put(workflow_results, "status", "error"), "error", e)
    /\ pc' = "returned"

\* An awaited agent call raises instead of returning.
AgentCallRaises ==
    /\ pc \notin {"idle", "returned", "raised"}
    /\ \E e \in ExcTexts :
         /\ raised' = e
         /\ HandleException(e)
    /\ UNCHANGED <<video_style, locals, calls, started>>
    /\ UNCHANGED vwVars
    /\ UNCHANGED osVars

-----------------------------------------------------------------------------
(* VideoWorkflow and its agents: values *)

AgentOrder == <<"map_parser", "menu_extractor", "script_generator", "video_generator">>

Agents == {AgentOrder[i] : i \in 1..Len(AgentOrder)}

\* An exception: its type, its message and (validate_input) the fields it lists.
Exc(type, msg, fields) == [type |-> type, msg |-> msg, fields |-> fields]

KeyError(k) == Exc("KeyError", k, <<>>)

\* str(e): the message without the exception's type.
Str(e) == [msg |-> e["msg"], fields |-> e["fields"]]

Returned(value) == [kind |-> "return", value |-> value]

Raised(error) == [kind |-> "raise", error |-> error]

\* The strings float() accepts among those the patterns [-\d.]+ can capture.
CoordStrings == {"40.7", "-74.0", "-"}

IsFloat(str) == str \in {"40.7", "-74.0"}

\* A Google Maps URL, by what the three patterns of _extract_place_info find in it:
\* the characters captured by place/([^/]+)/ (<<>>: no match) and the two strings
\* captured by @([-\d.]+),([-\d.]+) and by data=.*!1m.*!3d([-\d.]+)!4d([-\d.]+).
Url(place, at, data) == [place |-> place, at |-> at, data |-> data]

Urls ==
    { Url(<<"J", "+", "P">>, <<>>, <<>>),
      Url(<<"J", "+", "P">>, <<"40.7", "-74.0">>, <<>>),
      Url(<<>>, <<"40.7", "-74.0">>, <<>>),
      Url(<<>>, <<"-", "40.7">>, <<>>),
      Url(<<>>, <<>>, <<"40.7", "-74.0">>),
      Url(<<>>, <<>>, <<>>) }

TaskIds == {"task-1"}

Styles == {"luxury"}

\* duration values: a number of seconds, or something that is no number.
Durations == {"soon"}

IsNumber(x) == x \in {"30", "60"}

Websites == {"https://luigi.example"}

\* The "result" of a Places details lookup: every field is optional.
Places ==
    { [name |-> "Luigi", formatted_address |-> "1 Via Roma", website |-> "https://luigi.example",
       formatted_phone_number |-> "555-0100", rating |-> "4.5", user_ratings_total |-> "120"],
      [name |-> "Luigi"],
      EmptyDict }

\* The dicts with some of the keys of the record set rs.
RECURSIVE Optional(_, _)
Optional(rs, keys) ==
    IF keys = {} THEN rs
    ELSE LET k == CHOOSE x \in keys : TRUE
             rest == Optional(rs, keys \ {k})
         IN  rest \cup {[x \in (DOMAIN r) \ {k} |-> r[x]] : r \in rest}

\* Only the first missing field is reported.
missing_fields_FirstOnly(data, required_fields) ==
    LET all == SelectSeq(required_fields, LAMBDA field : field \notin DOMAIN data)
    IN  IF all = <<>> THEN <<>> ELSE <<all[1]>>

\* BaseAgent.validate_input: the missing fields, in required_fields order.
missing_fields(data, required_fields) ==
    SelectSeq(required_fields, LAMBDA field : field \notin DOMAIN data)

validate_input(data, required_fields) ==
    IF missing_fields(data, required_fields) # <<>>
    THEN Raised(Exc("ValueError", "Missing required fields", missing_fields(data, required_fields)))
    ELSE Returned(EmptyDict)

\* The required_fields each agent's run passes to validate_input.
RequiredFields(agent) ==
    CASE agent = "map_parser"       -> <<"google_maps_url">>
      [] agent = "menu_extractor"   -> <<"website", "restaurant_name">>
      [] agent = "script_generator" -> <<"restaurant_name", "menu", "style">>
      [] agent = "video_generator"  -> <<"script", "scenes", "restaurant_name">>

HasKeys(dict, keys) == keys \subseteq DOMAIN dict

\* The first key of the sequence keys that dict does not have.
FirstMissing(dict, keys) ==
    LET miss == SelectSeq(keys, LAMBDA k : k \notin DOMAIN dict) IN miss[1]

-----------------------------------------------------------------------------
(* VideoWorkflow.run and run_step *)

\* await self.<agent>.run(agent_in)
CallAgent(agent, agent_in) ==
    /\ vpc' = <<agent, "run">>
    /\ agent_input' = agent_in
    /\ agent_calls' = Append(agent_calls, agent)
    /\ agent_out' = EmptyDict
    /\ tmp' = EmptyDict
    /\ UNCHANGED <<result, agent_returns>>

\* The exception leaves run.
RunFails_Propagates(tid, e) ==
    /\ vpc' = <<"workflow", "raised">>
    /\ result' = Raised(e)
    /\ UNCHANGED <<agent_input, agent_calls, agent_out, tmp, agent_returns>>

\* Lines 101-109: except Exception as e: return {task_id, status: failed, error}
RunFails(tid, e) ==
    /\ vpc' = <<"workflow", "returned">>
    /\ result' = Returned([task_id |-> tid, status |-> "failed", error |-> Str(e)])
    /\ UNCHANGED <<agent_input, agent_calls, agent_out, tmp, agent_returns>>

\* A step of run: the keys it reads from the dicts it has (a missing one raises
\* KeyError), then the call of the next agent.
RunStep(tid, reads, agent, agent_in) ==
    IF \E i \in 1..Len(reads) : ~HasKeys(reads[i][1], {reads[i][2]})
    THEN LET i == CHOOSE j \in 1..Len(reads) :
                    /\ ~HasKeys(reads[j][1], {reads[j][2]})
                    /\ \A k \in 1..(j - 1) : HasKeys(reads[k][1], {reads[k][2]})
         IN  RunFails(tid, KeyError(reads[i][2]))
    ELSE CallAgent(agent, agent_in)

RunInputs ==
    Optional([google_maps_url : Urls, style : Styles, duration : Durations, task_id : TaskIds],
             {"google_maps_url", "style", "duration", "task_id"})

\* Lines 47-56
Run ==
    /\ vpc = <<"workflow", "idle">>
    /\ \E input \in RunInputs :
         /\ input_data' = input
         /\ task_id' = Get(input, "task_id", "workflow")
         /\ RunStep(Get(input, "task_id", "workflow"),
                    << <<input, "google_maps_url">> >>, "map_parser",
                    IF "google_maps_url" \in DOMAIN input
                    THEN [google_maps_url |-> input["google_maps_url"]] ELSE EmptyDict)
    /\ entry' = "run"
    /\ UNCHANGED <<step, outputs, fs, trace>>
    /\ UNCHANGED agnoVars
    /\ UNCHANGED osVars

\* The agent returned normally: its run ends with "return value".
AgentReturns(agent, value) ==
    /\ vpc' = <<agent, "done">>
    /\ agent_out' = Returned(value)
    /\ agent_returns' = Append(agent_returns, agent)

\* The agent's run ends with an exception (its "except Exception: ... raise").
AgentRaises(agent, e) ==
    /\ vpc' = <<agent, "done">>
    /\ agent_out' = Raised(e)
    /\ UNCHANGED agent_returns

-----------------------------------------------------------------------------
(* MapParserAgent *)

\* str.replace('+', ' ') on the captured place name
ReplacePlus(chars) == [i \in 1..Len(chars) |-> IF chars[i] = "+" THEN " " ELSE chars[i]]

\* _extract_place_info: the first pattern that matches decides; float() of a
\* captured string that is no number raises ValueError.
Coordinates(pair) ==
    IF IsFloat(pair[1]) /\ IsFloat(pair[2])
    THEN Returned([location |-> pair])
    ELSE Raised(Exc("ValueError", "could not convert string to float", <<>>))

_extract_place_info(url) ==
    IF url["place"] # <<>> THEN Returned([query |-> ReplacePlus(url["place"])])
    ELSE IF url["at"] # <<>> THEN Coordinates(url["at"])
    ELSE IF url["data"] # <<>> THEN Coordinates(url["data"])
    ELSE Returned(EmptyDict)

_fallback_scraping(place_info) ==
    [restaurant_name |-> "Restaurant Name", address |-> "123 Main St", website |-> "",
     phone |-> "", rating |-> "0.0", reviews_count |-> "0", place_id |-> ""]

\* What the Places client does: the search (places / places_nearby) raises, finds
\* nothing or finds a place id; the details lookup raises or answers.
SearchOutcomes == {"raises", "empty", "found"}

DetailsOutcomes ==
    {Raised(Exc("ApiError", "places details", <<>>))}
    \cup {Returned([result |-> place]) : place \in Places}
    \cup {Returned(EmptyDict)}

PlaceRecord(place, place_id) ==
    [restaurant_name |-> Get(place, "name", ""),
     address         |-> Get(place, "formatted_address", ""),
     website         |-> Get(place, "website", ""),
     phone           |-> Get(place, "formatted_phone_number", ""),
     rating          |-> Get(place, "rating", "0.0"),
     reviews_count   |-> Get(place, "user_ratings_total", "0"),
     place_id        |-> place_id]

\* The try block of _get_place_details (lines 87-130), without its handler.
PlaceLookup(place_info, search, details) ==
    IF ~HasKeys(place_info, {"query"}) /\ ~HasKeys(place_info, {"location"})
    THEN Raised(Exc("UnboundLocalError", "place_id", <<>>))
    ELSE IF search = "raises" THEN Raised(Exc("ApiError", "places search", <<>>))
    ELSE IF search = "empty"
         THEN Raised(Exc("ValueError",
                         IF HasKeys(place_info, {"query"}) THEN "Restaurant not found"
                         ELSE "Restaurant not found at coordinates", <<>>))
    ELSE IF details["kind"] = "raise" THEN details
    ELSE IF ~HasKeys(details["value"], {"result"}) THEN Raised(KeyError("result"))
    ELSE Returned(PlaceRecord(details["value"]["result"], "place-1"))

\* The lookup's exception leaves _get_place_details.
_get_place_details_NoHandler(place_info, search, details) ==
    PlaceLookup(place_info, search, details)

\* _get_place_details: except Exception: return await self._fallback_scraping(...)
_get_place_details(place_info, search, details) ==
    IF PlaceLookup(place_info, search, details)["kind"] = "raise"
    THEN Returned(_fallback_scraping(place_info))
    ELSE PlaceLookup(place_info, search, details)

\* MapParserAgent.run, lines 37-47: validate_input, then _extract_place_info.
MapParserRun ==
    /\ vpc = <<"map_parser", "run">>
    /\ LET valid == validate_input(agent_input, RequiredFields("map_parser"))
           info  == _extract_place_info(agent_input["google_maps_url"])
       IN  IF valid["kind"] = "raise"
           THEN AgentRaises("map_parser", valid["error"]) /\ UNCHANGED tmp
           ELSE IF info["kind"] = "raise"
           THEN AgentRaises("map_parser", info["error"]) /\ UNCHANGED tmp
           ELSE IF info["value"] = EmptyDict
           THEN /\ AgentRaises("map_parser",
                       Exc("ValueError", "Could not extract place information from URL", <<>>))
                /\ UNCHANGED tmp
           ELSE /\ vpc' = <<"map_parser", "places">>
                /\ tmp' = [place_info |-> info["value"]]
                /\ UNCHANGED <<agent_out, agent_returns>>
    /\ UNCHANGED <<entry, step, input_data, task_id, outputs, agent_input, fs, result,
                   agent_calls, trace>>
    /\ UNCHANGED agnoVars
    /\ UNCHANGED osVars

\* MapParserAgent.run, lines 50-57: _get_place_details and the return.
MapParserGetPlaceDetails ==
    /\ vpc = <<"map_parser", "places">>
    /\ \E search \in SearchOutcomes, details \in DetailsOutcomes :
         LET place_details == _get_place_details(tmp["place_info"], search, details)
         IN  /\ IF place_details["kind"] = "raise"
                THEN AgentRaises("map_parser", place_details["error"])
                ELSE AgentReturns("map_parser", place_details["value"])
             /\ trace' = Put(trace, "place_lookup",
                             [lookup |-> PlaceLookup(tmp["place_info"], search, details)["kind"],
                              search |-> search,
                              ended  |-> place_details])
    /\ UNCHANGED <<entry, step, input_data, task_id, outputs, agent_input, tmp, fs, result,
                   agent_calls>>
    /\ UNCHANGED agnoVars
    /\ UNCHANGED osVars

-----------------------------------------------------------------------------
(* VideoWorkflow.run: the steps between the agents *)

MenuExtractorInput(restaurant_info) ==
    [website         |-> Get(restaurant_info, "website", ""),
     restaurant_name |-> Get(restaurant_info, "restaurant_name", "Restaurant")]

\* restaurant_info is map_parser's output; the agent named is called next.
AfterMapParserCalling(agent) ==
    /\ vpc = <<"map_parser", "done">>
    /\ entry = "run"
    /\ IF agent_out["kind"] = "raise"
       THEN RunFails(task_id, agent_out["error"]) /\ UNCHANGED outputs
       ELSE LET restaurant_info == agent_out["value"]
            IN  /\ outputs' = Put(outputs, "restaurant_info", restaurant_info)
                /\ RunStep(task_id, <<>>, agent, MenuExtractorInput(restaurant_info))
    /\ UNCHANGED <<entry, step, input_data, task_id, fs, trace>>
    /\ UNCHANGED agnoVars
    /\ UNCHANGED osVars

\* Step 3 is run before step 2.
AfterMapParser_CallsScriptGenerator == AfterMapParserCalling("script_generator")

\* Lines 54-63: after map_parser, menu_extractor is called.
AfterMapParser == AfterMapParserCalling("menu_extractor")

\* The style is not passed on.
ScriptGeneratorInput_NoStyle(restaurant_info, menu_data, input) ==
    [restaurant_name |-> restaurant_info["restaurant_name"],
     address         |-> Get(restaurant_info, "address", ""),
     menu            |-> menu_data["menu"],
     duration        |-> Get(input, "duration", "30")]

ScriptGeneratorInput(restaurant_info, menu_data, input) ==
    [restaurant_name |-> restaurant_info["restaurant_name"],
     address         |-> Get(restaurant_info, "address", ""),
     menu            |-> menu_data["menu"],
     style           |-> Get(input, "style", "casual"),
     duration        |-> Get(input, "duration", "30")]

\* Lines 60-73: menu_data is menu_extractor's output; script_generator is called.
AfterMenuExtractor ==
    /\ vpc = <<"menu_extractor", "done">>
    /\ entry = "run"
    /\ IF agent_out["kind"] = "raise"
       THEN RunFails(task_id, agent_out["error"]) /\ UNCHANGED outputs
       ELSE LET menu_data == agent_out["value"]
                restaurant_info == outputs["restaurant_info"]
            IN  /\ outputs' = Put(outputs, "menu_data", menu_data)
                /\ RunStep(task_id,
                           << <<restaurant_info, "restaurant_name">>, <<menu_data, "menu">> >>,
                           "script_generator",
                           ScriptGeneratorInput(restaurant_info, menu_data, input_data))
    /\ UNCHANGED <<entry, step, input_data, task_id, fs, trace>>
    /\ UNCHANGED agnoVars
    /\ UNCHANGED osVars

VideoGeneratorInput(script_data, restaurant_info) ==
    [script          |-> script_data["script"],
     scenes          |-> script_data["scenes"],
     restaurant_name |-> restaurant_info["restaurant_name"],
     style           |-> script_data["style"]]

\* Lines 67-82: script_data is script_generator's output; video_generator is called.
AfterScriptGenerator ==
    /\ vpc = <<"script_generator", "done">>
    /\ entry = "run"
    /\ IF agent_out["kind"] = "raise"
       THEN RunFails(task_id, agent_out["error"]) /\ UNCHANGED outputs
       ELSE LET script_data == agent_out["value"]
                restaurant_info == outputs["restaurant_info"]
            IN  /\ outputs' = Put(outputs, "script_data", script_data)
                /\ RunStep(task_id,
                           << <<script_data, "script">>, <<script_data, "scenes">>,
                              <<restaurant_info, "restaurant_name">>, <<script_data, "style">> >>,
                           "video_generator",
                           VideoGeneratorInput(script_data, restaurant_info))
    /\ UNCHANGED <<entry, step, input_data, task_id, fs, trace>>
    /\ UNCHANGED agnoVars
    /\ UNCHANGED osVars

\* Lines 86-99: the dict run returns when all four agents have returned.
RunResult(video_result, outs, tid) ==
    [video_path      |-> video_result["video_path"],
     thumbnail_path  |-> video_result["thumbnail_path"],
     restaurant_info |-> outs["restaurant_info"],
     menu_data       |-> outs["menu_data"],
     script_data     |-> outs["script_data"],
     video_metadata  |-> [duration   |-> video_result["duration"],
                          file_size  |-> video_result["file_size"],
                          resolution |-> video_result["resolution"]],
     task_id         |-> tid,
     status          |-> "completed"]

\* Lines 77-99: video_result is video_generator's output; run returns.
AfterVideoGenerator ==
    /\ vpc = <<"video_generator", "done">>
    /\ entry = "run"
    /\ IF agent_out["kind"] = "raise"
       THEN RunFails(task_id, agent_out["error"]) /\ UNCHANGED outputs
       ELSE LET video_result == agent_out["value"]
                keys == <<"video_path", "thumbnail_path", "duration", "file_size", "resolution">>
            IN  /\ outputs' = Put(outputs, "video_result", video_result)
                /\ IF ~HasKeys(video_result, {keys[i] : i \in 1..Len(keys)})
                   THEN RunFails(task_id, KeyError(FirstMissing(video_result, keys)))
                   ELSE /\ vpc' = <<"workflow", "returned">>
                        /\ result' = Returned(RunResult(video_result, outputs, task_id))
                        /\ UNCHANGED <<agent_input, agent_calls, agent_out, tmp, agent_returns>>
    /\ UNCHANGED <<entry, step, input_data, task_id, fs, trace>>
    /\ UNCHANGED agnoVars
    /\ UNCHANGED osVars

-----------------------------------------------------------------------------
(* MenuExtractorAgent *)

\* A local that is None or a list.
None == [kind |-> "None"]

List(seq) == [kind |-> "list", value |-> seq]

\* The truth value Python gives a string or a None-or-list local.
TruthyStr(str) == str # ""

\* menu_data is tested with "is not None".
Truthy_NotNone(x) == x["kind"] = "list"

Truthy(x) == x["kind"] = "list" /\ x["value"] # <<>>

\* The items _parse_menu_elements can find on a page.
MenuItemPool ==
    { [name |-> "Pizza", price |-> "$12", description |-> "", category |-> "Main Menu"],
      [name |-> "Tiramisu", price |-> "$7", description |-> "classic", category |-> "Desserts"] }

MaxMenuItems == 2

ScrapedItems == UNION {[1..n -> MenuItemPool] : n \in 0..MaxMenuItems}

\* The categories of the items, in the order of their first item (dict insertion order).
RECURSIVE Categories(_, _)
Categories(menu_items, i) ==
    IF i = 0 THEN <<>>
    ELSE LET prev == Categories(menu_items, i - 1)
         IN  IF \E j \in 1..Len(prev) : prev[j] = menu_items[i]["category"]
             THEN prev
             ELSE Append(prev, menu_items[i]["category"])

_structure_menu_data(menu_items) ==
    LET cats == Categories(menu_items, Len(menu_items))
        of(c) == SelectSeq(menu_items, LAMBDA item : item["category"] = c)
    IN  [k \in 1..Len(cats) |->
            [category |-> cats[k],
             items    |-> [j \in 1..Len(of(cats[k])) |->
                             [name        |-> of(cats[k])[j]["name"],
                              price       |-> of(cats[k])[j]["price"],
                              description |-> of(cats[k])[j]["description"]]]]]

_generate_fallback_menu(restaurant_name) ==
    << [category |-> "Starters",
        items |-> << [name |-> "House Salad", price |-> "$8",
                      description |-> "Fresh mixed greens with seasonal vegetables"],
                     [name |-> "Soup of the Day", price |-> "$6",
                      description |-> "Chef's daily selection"] >>],
       [category |-> "Main Courses",
        items |-> << [name |-> "Grilled Chicken", price |-> "$18",
                      description |-> "Herb-seasoned chicken breast with vegetables"],
                     [name |-> "Pan-Seared Salmon", price |-> "$22",
                      description |-> "Fresh Atlantic salmon with lemon butter sauce"],
                     [name |-> "Pasta Primavera", price |-> "$16",
                      description |-> "Seasonal vegetables with house-made pasta"] >>],
       [category |-> "Desserts",
        items |-> << [name |-> "Chocolate Cake", price |-> "$8",
                      description |-> "Rich chocolate layer cake"],
                     [name |-> "Seasonal Fruit Tart", price |-> "$7",
                      description |-> "Fresh fruit with pastry cream"] >>] >>

\* What the browser does: the page load raises, or the selectors yield items.
WebsiteOutcomes == {Raised(Exc("PlaywrightError", "goto", <<>>))}
                   \cup {Returned(items) : items \in ScrapedItems}

_extract_from_website(outcome) ==
    IF outcome["kind"] = "raise" THEN None ELSE List(_structure_menu_data(outcome["value"]))

\* What the HTTP fetch does: it raises, or answers with a page.
PdfOutcomes == {"raises", "fetched"}

\* Both ends return None: the PDF extraction itself is a TODO.
_extract_from_pdf(outcome) == None

\* Lines 65-75: the fallback, then the return.
MenuExtractorReturns(menu_data, extraction_method, restaurant_name) ==
    AgentReturns("menu_extractor",
                 [menu |-> IF ~Truthy(menu_data)
                           THEN _generate_fallback_menu(restaurant_name)
                           ELSE menu_data["value"],
                  extraction_method |-> extraction_method])

\* MenuExtractorAgent.run, lines 41-53
MenuExtractorRun ==
    /\ vpc = <<"menu_extractor", "run">>
    /\ LET valid == validate_input(agent_input, RequiredFields("menu_extractor"))
       IN  IF valid["kind"] = "raise"
           THEN AgentRaises("menu_extractor", valid["error"]) /\ UNCHANGED <<tmp, trace>>
           ELSE IF TruthyStr(agent_input["website"])
           THEN /\ vpc' = <<"menu_extractor", "website">>
                /\ tmp' = [menu_data |-> None, extraction_method |-> "fallback"]
                /\ trace' = Put(trace, "menu", [attempted |-> <<>>])
                /\ UNCHANGED <<agent_out, agent_returns>>
           ELSE /\ MenuExtractorReturns(None, "fallback", agent_input["restaurant_name"])
                /\ trace' = Put(trace, "menu", [attempted |-> <<>>])
                /\ UNCHANGED tmp
    /\ UNCHANGED <<entry, step, input_data, task_id, outputs, agent_input, fs, result,
                   agent_calls>>
    /\ UNCHANGED agnoVars
    /\ UNCHANGED osVars

\* Lines 55-60: website extraction
MenuExtractFromWebsite ==
    /\ vpc = <<"menu_extractor", "website">>
    /\ \E outcome \in WebsiteOutcomes :
         LET menu_data == _extract_from_website(outcome)
         IN  /\ trace' = Put(trace, "menu",
                             [attempted |-> <<"website">>, website |-> menu_data])
             /\ IF Truthy(menu_data)
                THEN /\ MenuExtractorReturns(menu_data, "website", agent_input["restaurant_name"])
                     /\ UNCHANGED tmp
                ELSE /\ vpc' = <<"menu_extractor", "pdf">>
                     /\ tmp' = [menu_data |-> menu_data, extraction_method |-> "fallback"]
                     /\ UNCHANGED <<agent_out, agent_returns>>
    /\ UNCHANGED <<entry, step, input_data, task_id, outputs, agent_input, fs, result,
                   agent_calls>>
    /\ UNCHANGED agnoVars
    /\ UNCHANGED osVars

\* Lines 60-75: PDF extraction, the fallback and the return
MenuExtractFromPdf ==
    /\ vpc = <<"menu_extractor", "pdf">>
    /\ \E outcome \in PdfOutcomes :
         LET menu_data == _extract_from_pdf(outcome)
         IN  /\ trace' = Put(trace, "menu",
                             [attempted |-> <<"website", "pdf">>,
                              website |-> trace["menu"]["website"], pdf |-> menu_data])
             /\ MenuExtractorReturns(menu_data,
                                     IF Truthy(menu_data) THEN "pdf" ELSE tmp["extraction_method"],
                                     agent_input["restaurant_name"])
    /\ UNCHANGED <<entry, step, input_data, task_id, outputs, agent_input, tmp, fs, result,
                   agent_calls>>
    /\ UNCHANGED agnoVars
    /\ UNCHANGED osVars

-----------------------------------------------------------------------------
(* ScriptGeneratorAgent *)

MaxSentences == 2

\* A script is the list of the sentences script.split(".") finds in it.
AiScripts == UNION {[1..n -> {"Try our pasta dish"}] : n \in 0..MaxSentences}

\* What the OpenAI client does: it raises, or answers with a script.
OpenAiOutcomes == {Raised(Exc("OpenAIError", "chat completion", <<>>))}
                  \cup {Returned(script) : script \in AiScripts}

style_templates ==
    [luxury |-> <<"Experience culinary excellence at NAME",
                  "Our chef-crafted dishes featuring MENU deliver an unforgettable fine dining experience",
                  "Reserve your table today for an evening of exceptional cuisine">>,
     casual |-> <<"Welcome to NAME, where great food brings people together",
                  "Enjoy our delicious MENU in a warm, friendly atmosphere",
                  "Come hungry, leave happy",
                  "Visit us today!">>,
     street_food |-> <<"Taste the authentic flavors at NAME! Our bold, fresh MENU pack incredible taste into every bite",
                       "Real food, real flavor, real good",
                       "Stop by and taste the difference!">>]

_generate_fallback_script(restaurant_name, menu_highlights, style) ==
    [script |-> Get(style_templates, style, style_templates["casual"])]

\* _generate_script: the AI's script, or the fallback script when the AI call raises.
_generate_script(restaurant_name, menu, style, duration, outcome) ==
    IF outcome["kind"] = "raise"
    THEN _generate_fallback_script(restaurant_name, menu, style)
    ELSE [script |-> outcome["value"]]

\* The words _generate_image_prompt looks for, per sentence.
Keywords(sentence) ==
    CASE sentence \in {"Welcome to NAME, where great food brings people together",
                       "Visit us today!"} -> {"welcome"}
      [] sentence \in {"Try our pasta dish",
                       "Our chef-crafted dishes featuring MENU deliver an unforgettable fine dining experience"}
                     -> {"dish"}
      [] sentence = "Enjoy our delicious MENU in a warm, friendly atmosphere" -> {"atmosphere"}
      [] sentence = "Taste the authentic flavors at NAME! Our bold, fresh MENU pack incredible taste into every bite"
                     -> {"fresh"}
      [] OTHER -> {}

_generate_image_prompt(text, scene_index) ==
    IF scene_index = 0 \/ "welcome" \in Keywords(text)
    THEN "restaurant exterior, welcoming entrance, warm lighting"
    ELSE IF "dish" \in Keywords(text)
    THEN "beautifully plated signature dish, professional food photography"
    ELSE IF "atmosphere" \in Keywords(text)
    THEN "elegant restaurant interior, cozy dining atmosphere"
    ELSE IF "fresh" \in Keywords(text)
    THEN "fresh ingredients, chef preparing food in kitchen"
    ELSE "restaurant dining room, happy customers enjoying meal"

\* _create_scenes: one scene per sentence; total_duration / num_scenes raises
\* TypeError when there is a sentence and the duration is no number.
_create_scenes(script_data, total_duration) ==
    LET sentences == script_data["script"]
        num_scenes == Len(sentences)
    IN  IF num_scenes > 0 /\ ~IsNumber(total_duration)
        THEN Raised(Exc("TypeError", "unsupported operand type(s) for /", <<>>))
        ELSE Returned([i \in 1..num_scenes |->
                         [text           |-> <<sentences[i], ".">>,
                          duration       |-> <<total_duration, "/", num_scenes>>,
                          image_prompt   |-> _generate_image_prompt(sentences[i], i - 1),
                          voiceover_text |-> <<sentences[i], ".">>]])

\* ScriptGeneratorAgent.run, lines 43-51
ScriptGeneratorRun ==
    /\ vpc = <<"script_generator", "run">>
    /\ LET valid == validate_input(agent_input, RequiredFields("script_generator"))
       IN  IF valid["kind"] = "raise"
           THEN AgentRaises("script_generator", valid["error"]) /\ UNCHANGED tmp
           ELSE /\ vpc' = <<"script_generator", "openai">>
                /\ tmp' = [duration |-> Get(agent_input, "duration", "30")]
                /\ UNCHANGED <<agent_out, agent_returns>>
    /\ UNCHANGED <<entry, step, input_data, task_id, outputs, agent_input, fs, result,
                   agent_calls, trace>>
    /\ UNCHANGED agnoVars
    /\ UNCHANGED osVars

\* ScriptGeneratorAgent.run, lines 53-72
ScriptGeneratorGenerateScript ==
    /\ vpc = <<"script_generator", "openai">>
    /\ \E outcome \in OpenAiOutcomes :
         LET script_data == _generate_script(agent_input["restaurant_name"], agent_input["menu"],
                                             agent_input["style"], tmp["duration"], outcome)
             scenes == _create_scenes(script_data, tmp["duration"])
         IN  IF scenes["kind"] = "raise"
             THEN AgentRaises("script_generator", scenes["error"])
             ELSE AgentReturns("script_generator",
                               [script         |-> script_data["script"],
                                scenes         |-> scenes["value"],
                                total_duration |-> tmp["duration"],
                                style          |-> agent_input["style"]])
    /\ UNCHANGED <<entry, step, input_data, task_id, outputs, agent_input, tmp, fs, result,
                   agent_calls, trace>>
    /\ UNCHANGED agnoVars
    /\ UNCHANGED osVars

-----------------------------------------------------------------------------
(* VideoGeneratorAgent *)

\* The directory tempfile.TemporaryDirectory() creates.
TempDir == "/tmp/tmpdir"

\* os.path.join(temp_dir, <name>): a path is the directory and the parts of the name.
Join(temp_dir, name) == <<temp_dir>> \o name

Exists(files, path) == path \in DOMAIN files

WriteFile(files, path, content) == Put(files, path, content)

\* TemporaryDirectory.__exit__: the directory and everything in it is deleted.
RemoveTree(files, temp_dir) ==
    [p \in {q \in DOMAIN files : q[1] # temp_dir} |-> files[p]]

\* What an external tool does with a primary step and, when that failed, with its
\* fallback: <<primary, fallback>>.
StepOutcomes == {<<"ok", "-">>, <<"raises", "ok">>, <<"raises", "raises">>}

ProbeOutcomes == {"ok", "raises"}

DefaultMetadata == [duration |-> "30.0", file_size |-> "0", resolution |-> "1920x1080"]

ProbedMetadata == [duration |-> "12.5", file_size |-> "1048576", resolution |-> "1280x720"]

ToolError(what) == Exc("Error", what, <<>>)

\* The run leaves the with block by an exception: the directory is deleted.
VideoGeneratorRaises(e) ==
    /\ AgentRaises("video_generator", e)
    /\ fs' = RemoveTree(fs, tmp["temp_dir"])
    /\ UNCHANGED tmp

UsedFallback(what) ==
    trace' = Put(trace, "video", [fallbacks |-> Get(trace, "video", [fallbacks |-> {}])["fallbacks"]
                                                 \cup {what}])

NoFallback ==
    trace' = Put(trace, "video", Get(trace, "video", [fallbacks |-> {}]))

\* VideoGeneratorAgent.run, lines 41-52
VideoGeneratorRun ==
    /\ vpc = <<"video_generator", "run">>
    /\ LET valid == validate_input(agent_input, RequiredFields("video_generator"))
       IN  IF valid["kind"] = "raise"
           THEN AgentRaises("video_generator", valid["error"]) /\ UNCHANGED <<tmp, fs>>
           ELSE /\ vpc' = <<"video_generator", "voiceover">>
                /\ tmp' = [temp_dir |-> TempDir, image_paths |-> <<>>]
                /\ fs' = WriteFile(fs, <<TempDir>>, "directory")
                /\ UNCHANGED <<agent_out, agent_returns>>
    /\ UNCHANGED <<entry, step, input_data, task_id, outputs, agent_input, result,
                   agent_calls, trace>>
    /\ UNCHANGED agnoVars
    /\ UNCHANGED osVars

\* _generate_voiceover (lines 85-107) and _generate_silent_audio (278-289)
VideoGenerateVoiceover ==
    /\ vpc = <<"video_generator", "voiceover">>
    /\ \E o \in StepOutcomes :
         IF o[1] = "ok"
         THEN /\ fs' = WriteFile(fs, Join(tmp["temp_dir"], <<"voiceover.mp3">>), "voiceover")
              /\ tmp' = Put(tmp, "audio_path", Join(tmp["temp_dir"], <<"voiceover.mp3">>))
              /\ NoFallback
              /\ vpc' = <<"video_generator",
                          IF Len(agent_input["scenes"]) > 0 THEN "images" ELSE "assemble">>
              /\ UNCHANGED <<agent_out, agent_returns>>
         ELSE IF o[2] = "ok"
         THEN /\ fs' = WriteFile(fs, Join(tmp["temp_dir"], <<"silent.mp3">>), "30 s of silence")
              /\ tmp' = Put(tmp, "audio_path", Join(tmp["temp_dir"], <<"silent.mp3">>))
              /\ UsedFallback("voiceover")
              /\ vpc' = <<"video_generator",
                          IF Len(agent_input["scenes"]) > 0 THEN "images" ELSE "assemble">>
              /\ UNCHANGED <<agent_out, agent_returns>>
         ELSE /\ VideoGeneratorRaises(ToolError("silent audio"))
              /\ UsedFallback("voiceover")
    /\ UNCHANGED <<entry, step, input_data, task_id, outputs, agent_input, result, agent_calls>>
    /\ UNCHANGED agnoVars
    /\ UNCHANGED osVars

\* One round of the loop of _generate_scene_images (lines 115-130)
VideoGenerateSceneImage ==
    /\ vpc = <<"video_generator", "images">>
    /\ LET i == Len(tmp["image_paths"])
           image_path == Join(tmp["temp_dir"], <<"scene_", i, ".jpg">>)
           next == IF i + 1 < Len(agent_input["scenes"]) THEN "images" ELSE "assemble"
       IN  \E o \in StepOutcomes :
             IF o[1] = "ok" \/ o[2] = "ok"
             THEN /\ fs' = WriteFile(fs, image_path,
                                     IF o[1] = "ok" THEN "stock image" ELSE "placeholder image")
                  /\ tmp' = Put(tmp, "image_paths", Append(tmp["image_paths"], image_path))
                  /\ IF o[1] = "ok" THEN NoFallback ELSE UsedFallback("image")
                  /\ vpc' = <<"video_generator", next>>
                  /\ UNCHANGED <<agent_out, agent_returns>>
             ELSE /\ VideoGeneratorRaises(ToolError("placeholder image"))
                  /\ UsedFallback("image")
    /\ UNCHANGED <<entry, step, input_data, task_id, outputs, agent_input, result, agent_calls>>
    /\ UNCHANGED agnoVars
    /\ UNCHANGED osVars

\* The exception of the primary step leaves _assemble_video: no fallback video.
VideoAssemble_NoFallback ==
    /\ vpc = <<"video_generator", "assemble">>
    /\ LET name == agent_input["restaurant_name"]
           promo == Join(tmp["temp_dir"], <<name, "_promo.mp4">>)
       IN  \E o \in StepOutcomes :
             IF o[1] = "ok"
             THEN /\ fs' = WriteFile(fs, promo, "promo video")
                  /\ tmp' = Put(tmp, "video_path", promo)
                  /\ NoFallback
                  /\ vpc' = <<"video_generator", "thumbnail">>
                  /\ UNCHANGED <<agent_out, agent_returns>>
             ELSE /\ VideoGeneratorRaises(ToolError("ffmpeg"))
                  /\ UsedFallback("assembly")
    /\ UNCHANGED <<entry, step, input_data, task_id, outputs, agent_input, result, agent_calls>>
    /\ UNCHANGED agnoVars
    /\ UNCHANGED osVars

\* _assemble_video (lines 193-233) and _create_fallback_video (291-312)
VideoAssemble ==
    /\ vpc = <<"video_generator", "assemble">>
    /\ LET name == agent_input["restaurant_name"]
           promo == Join(tmp["temp_dir"], <<name, "_promo.mp4">>)
           fallback == Join(tmp["temp_dir"], <<name, "_fallback.mp4">>)
       IN  \E o \in StepOutcomes :
             IF o[1] = "ok"
             THEN /\ fs' = WriteFile(fs, promo, "promo video")
                  /\ tmp' = Put(tmp, "video_path", promo)
                  /\ NoFallback
                  /\ vpc' = <<"video_generator", "thumbnail">>
                  /\ UNCHANGED <<agent_out, agent_returns>>
             ELSE IF o[2] = "ok"
             THEN /\ fs' = WriteFile(fs, fallback, "fallback video")
                  /\ tmp' = Put(tmp, "video_path", fallback)
                  /\ UsedFallback("assembly")
                  /\ vpc' = <<"video_generator", "thumbnail">>
                  /\ UNCHANGED <<agent_out, agent_returns>>
             ELSE /\ VideoGeneratorRaises(ToolError("fallback video"))
                  /\ UsedFallback("assembly")
    /\ UNCHANGED <<entry, step, input_data, task_id, outputs, agent_input, result, agent_calls>>
    /\ UNCHANGED agnoVars
    /\ UNCHANGED osVars

\* _generate_thumbnail (lines 235-251)
VideoGenerateThumbnail ==
    /\ vpc = <<"video_generator", "thumbnail">>
    /\ LET thumbnail_path == Join(tmp["temp_dir"], <<"thumbnail.jpg">>)
       IN  \E o \in StepOutcomes :
             IF o[1] = "ok" \/ o[2] = "ok"
             THEN /\ fs' = WriteFile(fs, thumbnail_path,
                                     IF o[1] = "ok" THEN "video frame" ELSE "placeholder image")
                  /\ tmp' = Put(tmp, "thumbnail_path", thumbnail_path)
                  /\ IF o[1] = "ok" THEN NoFallback ELSE UsedFallback("thumbnail")
                  /\ vpc' = <<"video_generator", "metadata">>
                  /\ UNCHANGED <<agent_out, agent_returns>>
             ELSE /\ VideoGeneratorRaises(ToolError("placeholder image"))
                  /\ UsedFallback("thumbnail")
    /\ UNCHANGED <<entry, step, input_data, task_id, outputs, agent_input, result, agent_calls>>
    /\ UNCHANGED agnoVars
    /\ UNCHANGED osVars

_get_video_metadata(probe) == IF probe = "ok" THEN ProbedMetadata ELSE DefaultMetadata

\* _get_video_metadata (lines 253-276), the return (73-79) and the end of the with block
VideoGetMetadataAndReturn ==
    /\ vpc = <<"video_generator", "metadata">>
    /\ \E probe \in ProbeOutcomes :
         LET metadata == _get_video_metadata(probe)
         IN  /\ AgentReturns("video_generator",
                             [video_path     |-> tmp["video_path"],
                              thumbnail_path |-> tmp["thumbnail_path"],
                              duration       |-> metadata["duration"],
                              file_size      |-> metadata["file_size"],
                              resolution     |-> metadata["resolution"]])
             /\ IF probe = "ok" THEN NoFallback ELSE UsedFallback("metadata")
    /\ fs' = RemoveTree(fs, tmp["temp_dir"])
    /\ UNCHANGED <<entry, step, input_data, task_id, outputs, agent_input, tmp, result,
                   agent_calls>>
    /\ UNCHANGED agnoVars
    /\ UNCHANGED osVars

-----------------------------------------------------------------------------
(* VideoWorkflow.run_step *)

StepNames == Agents \cup {"thumbnailer", "MAP_PARSER", ""}

\* A restaurant_name that is None (every name is a string here).
NoneName == "<None>"

StepInputs(name) ==
    CASE name = "map_parser" ->
            Optional([google_maps_url : Urls], {"google_maps_url"})
      [] name = "menu_extractor" ->
            Optional([website : Websites \cup {""}, restaurant_name : {"Luigi", NoneName}],
                     {"website", "restaurant_name"})
      [] name = "script_generator" ->
            Optional([restaurant_name : {"Luigi"}, menu : {_generate_fallback_menu("Luigi")},
                      style : Styles, duration : Durations],
                     {"restaurant_name", "menu", "style", "duration"})
      [] name = "video_generator" ->
            Optional([script : AiScripts, scenes : {<<>>}, restaurant_name : {"Luigi"},
                      style : Styles],
                     {"script", "scenes", "restaurant_name", "style"})
      [] OTHER -> {EmptyDict}

\* Lines 122-133
RunStepCall ==
    /\ vpc = <<"workflow", "idle">>
    /\ \E name \in StepNames :
         \E input \in StepInputs(name) :
            /\ step' = name
            /\ input_data' = input
            /\ IF name \notin Agents
               THEN /\ vpc' = <<"workflow", "raised">>
                    /\ result' = Raised(Exc("ValueError", "Unknown step", <<name>>))
                    /\ UNCHANGED <<agent_input, agent_calls, agent_out, tmp, agent_returns>>
               ELSE CallAgent(name, input)
    /\ entry' = "run_step"
    /\ UNCHANGED <<task_id, outputs, fs, trace>>
    /\ UNCHANGED agnoVars
    /\ UNCHANGED osVars

\* The agent's exception is swallowed and an empty dict returned.
RunStepEnds_Swallows ==
    /\ \E agent \in Agents : vpc = <<agent, "done">>
    /\ entry = "run_step"
    /\ result' = IF agent_out["kind"] = "raise" THEN Returned(EmptyDict) ELSE agent_out
    /\ vpc' = <<"workflow", "returned">>
    /\ UNCHANGED <<entry, step, input_data, task_id, outputs, agent_input, agent_out, tmp, fs,
                   agent_calls, agent_returns, trace>>
    /\ UNCHANGED agnoVars
    /\ UNCHANGED osVars

\* Line 133: return await agent.run(input_data)
RunStepEnds ==
    /\ \E agent \in Agents : vpc = <<agent, "done">>
    /\ entry = "run_step"
    /\ result' = agent_out
    /\ vpc' = <<"workflow", IF agent_out["kind"] = "raise" THEN "raised" ELSE "returned">>
    /\ UNCHANGED <<entry, step, input_data, task_id, outputs, agent_input, agent_out, tmp, fs,
                   agent_calls, agent_returns, trace>>
    /\ UNCHANGED agnoVars
    /\ UNCHANGED osVars

-----------------------------------------------------------------------------
(* The workflow factories (workflows/video_generation_workflow.py) *)

\* agno's Step(name=, description=, agent=) and Workflow(id=, ..., steps=, session_state=)
Step(name, description, agent) == [name |-> name, description |-> description, agent |-> agent]

Workflow(id, name, description, db, steps, session_state) ==
    [id |-> id, name |-> name, description |-> description, db |-> db, steps |-> steps,
     session_state |-> session_state]

\* The script-only workflow is given the id of the complete one.
create_script_only_workflow_SameId(restaurant_agent, menu_agent, content_creator_agent, db) ==
    Workflow("video-generation", "Script Generation Workflow",
             "Fast video script generation from Google Maps URL", db,
             << Step("restaurant_analysis", "Extract restaurant data from Google Maps URL",
                     restaurant_agent),
                Step("menu_analysis", "Quick menu analysis for script context", menu_agent),
                Step("script_generation",
                     "Generate video script based on restaurant and menu data",
                     content_creator_agent) >>,
             [google_maps_url |-> "", video_style |-> "casual", restaurant_data |-> EmptyDict,
              menu_data |-> EmptyDict, script_data |-> EmptyDict])

create_video_generation_workflow(restaurant_agent, menu_agent, content_creator_agent, video_producer_agent, db) ==
    Workflow("video-generation", "Video Generation Workflow",
             "Complete promotional video generation from Google Maps URL to production plan", db,
             << Step("restaurant_analysis",
                     "Extract and analyze restaurant data from Google Maps URL", restaurant_agent),
                Step("menu_analysis", "Extract and analyze menu data, identify featured items",
                     menu_agent),
                Step("content_creation", "Generate video script and promotional content",
                     content_creator_agent),
                Step("video_production", "Plan video production, source assets, prepare voiceover",
                     video_producer_agent) >>,
             [google_maps_url |-> "", video_style |-> "casual", duration |-> "30",
              restaurant_data |-> EmptyDict, menu_data |-> EmptyDict, script_data |-> EmptyDict,
              production_plan |-> EmptyDict])

create_script_only_workflow(restaurant_agent, menu_agent, content_creator_agent, db) ==
    Workflow("script-generation", "Script Generation Workflow",
             "Fast video script generation from Google Maps URL", db,
             << Step("restaurant_analysis", "Extract restaurant data from Google Maps URL",
                     restaurant_agent),
                Step("menu_analysis", "Quick menu analysis for script context", menu_agent),
                Step("script_generation",
                     "Generate video script based on restaurant and menu data",
                     content_creator_agent) >>,
             [google_maps_url |-> "", video_style |-> "casual", restaurant_data |-> EmptyDict,
              menu_data |-> EmptyDict, script_data |-> EmptyDict])

create_restaurant_analysis_workflow(restaurant_agent, db) ==
    Workflow("restaurant-analysis", "Restaurant Analysis Workflow",
             "Extract and analyze restaurant data from Google Maps URL", db,
             << Step("restaurant_analysis",
                     "Comprehensive restaurant data extraction and analysis", restaurant_agent) >>,
             [google_maps_url |-> "", restaurant_data |-> EmptyDict])

-----------------------------------------------------------------------------
(* agent_os_server.py *)

\* The value of GOOGLE_PLACES_API_KEY: how it starts and how long it is ("" when unset).
ApiKey(prefix, length) == [prefix |-> prefix, length |-> length]

ApiKeys == {ApiKey("", 0), ApiKey("AIza", 39), ApiKey("AIza", 20), ApiKey("sk-", 39)}

MinApiKeyLength == 30

\* RestaurantDataTools.__init__, lines 17-21
RestaurantDataTools__init__(api_key) ==
    IF api_key["length"] = 0 \/ api_key["prefix"] # "AIza" \/ api_key["length"] < MinApiKeyLength
    THEN Raised(Exc("ValueError",
                    "Valid Google Places API key is required for RestaurantDataTools", <<>>))
    ELSE Returned(EmptyDict)

\* The agents of the module, by their names.
restaurant_agent == "Restaurant Specialist"

menu_agent == "Menu Analyst"

content_creator_agent == "Content Creator"

video_producer_agent == "Video Producer"

main_orchestrator == "Promo Video Creator"

promo_db == "promo_creator.db"

\* AgentOS(agents=[...]), lines 195-201
OsAgents ==
    <<main_orchestrator, restaurant_agent, menu_agent, content_creator_agent,
      video_producer_agent>>

WorkflowParameters == <<"message", "stream", "user_id", "session_id", "dependencies">>

\* The body of GET /capabilities, lines 250-324
get_capabilities ==
    [agents |->
        [main_orchestrator |->
            [name |-> "Promo Video Creator",
             description |-> "Complete promotional video generation workflow",
             capabilities |-> <<"Full video generation from Google Maps URL",
                                "Restaurant data extraction and analysis",
                                "Menu analysis and featured item selection",
                                "Video script generation",
                                "Production planning and asset sourcing">>],
         restaurant_agent |->
            [name |-> "Restaurant Specialist",
             description |-> "Restaurant data extraction and analysis",
             capabilities |-> <<"Google Maps URL processing",
                                "Restaurant information extraction",
                                "Business analysis and recommendations">>],
         menu_agent |->
            [name |-> "Menu Analyst",
             description |-> "Menu extraction and analysis",
             capabilities |-> <<"Website menu scraping", "Menu item categorization",
                                "Featured item recommendations">>],
         content_creator_agent |->
            [name |-> "Content Creator",
             description |-> "Video script and promotional content generation",
             capabilities |-> <<"Video script generation", "Social media content creation",
                                "Content optimization">>],
         video_producer_agent |->
            [name |-> "Video Producer",
             description |-> "Video production planning and asset management",
             capabilities |-> <<"Production planning", "Stock footage sourcing",
                                "Voiceover preparation", "Technical specifications">>]],
     workflows |->
        ("video-generation" :>
            [id |-> "video-generation", name |-> "Video Generation Workflow",
             description |-> "Complete promotional video generation from Google Maps URL to production plan",
             endpoint |-> "/workflows/video-generation/runs",
             parameters |-> WorkflowParameters])
        @@
        ("script-generation" :>
            [id |-> "script-generation", name |-> "Script Generation Workflow",
             description |-> "Fast video script generation from Google Maps URL",
             endpoint |-> "/workflows/script-generation/runs",
             parameters |-> WorkflowParameters])
        @@
        ("restaurant-analysis" :>
            [id |-> "restaurant-analysis", name |-> "Restaurant Analysis Workflow",
             description |-> "Extract and analyze restaurant data from Google Maps URL",
             endpoint |-> "/workflows/restaurant-analysis/runs",
             parameters |-> WorkflowParameters])]

\* The body of GET /health, lines 239-244
health_check ==
    [status |-> "healthy", service |-> "AI Promo Creator AgentOS", agents |-> OsAgents,
     version |-> "1.0.0"]

\* The module is imported (lines 46-217): the tools and agents are built, then the
\* workflows; a RestaurantDataTools that rejects the API key ends the import.
ImportServer ==
    /\ server = "down"
    /\ \E api_key \in ApiKeys :
         IF RestaurantDataTools__init__(api_key)["kind"] = "raise"
         THEN /\ server' = "failed"
              /\ UNCHANGED workflows
         ELSE /\ server' = "serving"
              /\ workflows' =
                   << create_video_generation_workflow(restaurant_agent, menu_agent,
                                                       content_creator_agent,
                                                       video_producer_agent, promo_db),
                      create_script_only_workflow(restaurant_agent, menu_agent,
                                                  content_creator_agent, promo_db),
                      create_restaurant_analysis_workflow(restaurant_agent, promo_db) >>
    /\ UNCHANGED <<response, tool_call, tool_result, tool_trace>>
    /\ UNCHANGED <<agnoVars, vwVars>>

Respond(body) ==
    /\ server = "serving"
    /\ response' = body
    /\ UNCHANGED <<server, workflows, tool_call, tool_result, tool_trace>>
    /\ UNCHANGED <<agnoVars, vwVars>>

\* GET /capabilities
GetCapabilities == Respond(get_capabilities)

\* GET /health
HealthCheck == Respond(health_check)

-----------------------------------------------------------------------------
(* RestaurantDataTools (agents/tools/restaurant_tools.py) *)

\* The Python values a tool can be called with: None, an int, or a str.  A str is the
\* list of its characters or, for a URL, what the code looks for in it; the empty
\* str is <<>> in both cases.
PyInt(v) == [kind |-> "int", int |-> v]

PyStr(v) == [kind |-> "str", value |-> v]

\* isinstance(x, str)
IsStr(x) == x["kind"] = "str"

\* bool(x) of None, an int or a str
PyTruthy(x) ==
    CASE x["kind"] = "None" -> FALSE
      [] x["kind"] = "int"  -> x["int"] # "0"
      [] x["kind"] = "str"  -> x["value"] # <<>>

\* str.strip() on a list of characters
RECURSIVE LStrip(_)
LStrip(chars) ==
    IF chars # <<>> /\ chars[1] = " " THEN LStrip(Tail(chars)) ELSE chars

RECURSIVE RStrip(_)
RStrip(chars) ==
    IF chars # <<>> /\ chars[Len(chars)] = " "
    THEN RStrip(SubSeq(chars, 1, Len(chars) - 1))
    ELSE chars

Strip(chars) == RStrip(LStrip(chars))

\* The text of a URL: the host part it contains and what the three patterns of
\* _extract_place_info_from_url capture in it.
UrlText(host, url) ==
    [host |-> host, place |-> url["place"], at |-> url["at"], data |-> url["data"]]

Hosts == {"maps.google.", "MAPS.GOOGLE.", "goo.gl/maps", "maps.app.goo.gl", "example.com"}

\* str.lower() on the host part
Lower(host) == IF host = "MAPS.GOOGLE." THEN "maps.google." ELSE host

\* any(domain in google_maps_url.lower() for domain in [...]), line 67
IsGoogleMapsUrl(text) == Lower(text["host"]) \in {"maps.google.", "goo.gl/maps", "maps.app.goo.gl"}

\* any(short_domain in url.lower() for short_domain in [...]), line 203
IsShortenedUrl(text) == Lower(text["host"]) \in {"goo.gl/maps", "maps.app.goo.gl"}

GoogleMapsUrlArgs ==
    {None, PyInt("7"), PyStr(<<>>)} \cup {PyStr(UrlText(h, u)) : h \in Hosts, u \in Urls}

\* What requests.head does with a shortened URL: it raises, or redirects to a URL.
HeadOutcomes ==
    {Raised(Exc("ConnectionError", "head", <<>>))}
    \cup {Returned(UrlText("maps.google.", u)) : u \in Urls}

RestaurantNameArgs ==
    {None, PyInt("7")}
    \cup {PyStr(chars) : chars \in {<<>>, <<" ">>, <<" ", "A", " ">>, <<"J", "o">>,
                                     <<" ", "J", "o", "e">>}}

LocationArgs ==
    {None, PyInt("0"), PyInt("7"), PyStr(<<>>), PyStr(<<" ">>), PyStr(<<"N", "Y", " ">>)}

PlaceIdChars == <<"C", "h", "I", "J", "N", "1", "t", "_", "t", "D">>

PlaceIdArgs ==
    {None, PyInt("7")}
    \cup {PyStr(chars) : chars \in {<<>>, <<"C", "h", "I", "J">>, PlaceIdChars,
                                     <<" ">> \o PlaceIdChars,
                                     <<" ">> \o Tail(PlaceIdChars) \o <<" ">>}}

MinNameLength == 2

MinPlaceIdLength == 10

\* The Places details lookup as the tools see it: it can also reject the place_id.
ToolDetailsOutcomes ==
    DetailsOutcomes
    \cup {Raised(Exc("ApiError", "INVALID_REQUEST", <<>>))}
    \cup {Returned([result |-> [name |-> "Luigi", price_level |-> PyInt("2"),
                                opening_hours |-> [weekday_text |-> <<"Monday: Closed">>]]])}

\* The outcome of a function together with the Places API calls it made.
Logged(out, log) == [out |-> out, log |-> log]

\* {"error": <text>}
ErrorDict(msg, args) == [error |-> [msg |-> msg, fields |-> args]]

\* _get_detailed_place_info, lines 260-283
_get_detailed_place_info(place_id, details) ==
    IF details["kind"] = "raise"
    THEN Logged(details, << [api |-> "place", ended |-> "raised"] >>)
    ELSE IF ~HasKeys(details["value"], {"result"})
    THEN Logged(Raised(KeyError("result")), << [api |-> "place", ended |-> "no result"] >>)
    ELSE LET place == details["value"]["result"]
         IN  Logged(Returned(
                        [restaurant_name |-> Get(place, "name", ""),
                         address         |-> Get(place, "formatted_address", ""),
                         website         |-> Get(place, "website", ""),
                         phone           |-> Get(place, "formatted_phone_number", ""),
                         rating          |-> Get(place, "rating", "0.0"),
                         reviews_count   |-> Get(place, "user_ratings_total", "0"),
                         place_id        |-> place_id,
                         price_level     |-> Get(place, "price_level", None),
                         opening_hours   |-> Get(Get(place, "opening_hours", EmptyDict),
                                                 "weekday_text", <<>>)]),
                    << [api |-> "place", ended |-> "ok"] >>)

\* A function's log, with the calls of the function it went on to call.
After(entry_log, logged) == Logged(logged["out"], entry_log \o logged["log"])

\* The search of the Places API (places or places_nearby) and what follows it.
SearchThenDetails(api, search, not_found, details) ==
    IF search = "raises"
    THEN Logged(Raised(Exc("ApiError", "places search", <<>>)),
                << [api |-> api, ended |-> "raised"] >>)
    ELSE IF search = "empty"
    THEN Logged(not_found, << [api |-> api, ended |-> "empty"] >>)
    ELSE After(<< [api |-> api, ended |-> "found"] >>,
               _get_detailed_place_info(PlaceIdChars, details))

\* RestaurantDataTools._get_place_details, lines 233-258
RestaurantDataTools_get_place_details(place_info, search, details) ==
    IF HasKeys(place_info, {"query"})
    THEN SearchThenDetails("places", search,
                           Raised(Exc("ValueError", "Restaurant not found", <<>>)), details)
    ELSE IF HasKeys(place_info, {"location"})
    THEN SearchThenDetails("places_nearby", search,
                           Raised(Exc("ValueError", "Restaurant not found at coordinates", <<>>)),
                           details)
    ELSE Logged(Raised(Exc("UnboundLocalError", "place_id", <<>>)), <<>>)

\* _extract_place_info_from_url, lines 198-231: a shortened URL is resolved first,
\* and kept as it is when that raises.
_extract_place_info_from_url(text, head) ==
    LET url == IF IsShortenedUrl(text) /\ head["kind"] = "return" THEN head["value"] ELSE text
    IN  IF url["place"] # <<>> THEN Returned([query |-> ReplacePlus(url["place"])])
        ELSE IF url["at"] # <<>> THEN Coordinates(url["at"])
        ELSE IF url["data"] # <<>> THEN Coordinates(url["data"])
        ELSE Returned(None)

\* The try block of extract_restaurant_from_maps_url, lines 62-82
extract_restaurant_from_maps_url_Try(google_maps_url, head, search, details) ==
    IF ~PyTruthy(google_maps_url) \/ ~IsStr(google_maps_url)
    THEN Logged(Returned(ErrorDict("Invalid input: google_maps_url must be a non-empty string",
                                   <<>>)), <<>>)
    ELSE IF ~IsGoogleMapsUrl(google_maps_url["value"])
    THEN Logged(Returned(ErrorDict("Invalid URL: Must be a valid Google Maps URL", <<>>)), <<>>)
    ELSE LET place_info == _extract_place_info_from_url(google_maps_url["value"], head)
         IN  IF place_info["kind"] = "raise" THEN Logged(place_info, <<>>)
             ELSE IF place_info["value"] = None
             THEN Logged(Returned(ErrorDict("Could not extract place information from the provided Google Maps URL. Please check the URL format.",
                                            <<>>)), <<>>)
             ELSE RestaurantDataTools_get_place_details(place_info["value"], search, details)

\* except Exception as e: return {"error": str(e)}
ReturnsError(logged) ==
    IF logged["out"]["kind"] = "raise"
    THEN Logged(Returned([error |-> Str(logged["out"]["error"])]), logged["log"])
    ELSE logged

\* The exception leaves the tool.
extract_restaurant_from_maps_url_NoHandler(google_maps_url, head, search, details) ==
    extract_restaurant_from_maps_url_Try(google_maps_url, head, search, details)

\* extract_restaurant_from_maps_url, lines 35-86
extract_restaurant_from_maps_url(google_maps_url, head, search, details) ==
    ReturnsError(extract_restaurant_from_maps_url_Try(google_maps_url, head, search, details))

\* The try block of search_restaurant_by_name, lines 117-147
search_restaurant_by_name_Try(restaurant_name, location, search, details) ==
    IF ~PyTruthy(restaurant_name) \/ ~IsStr(restaurant_name)
    THEN Logged(Returned(ErrorDict("Invalid input: restaurant_name must be a non-empty string",
                                   <<>>)), <<>>)
    ELSE LET name == Strip(restaurant_name["value"])
         IN  IF Len(name) < MinNameLength
             THEN Logged(Returned(ErrorDict("Invalid input: restaurant_name must be at least 2 characters long",
                                            <<>>)), <<>>)
             ELSE IF PyTruthy(location) /\ ~IsStr(location)
             THEN Logged(Returned(ErrorDict("Invalid input: location must be a string if provided",
                                            <<>>)), <<>>)
             ELSE LET query == IF PyTruthy(location) /\ Strip(location["value"]) # <<>>
                               THEN name \o <<" ">> \o Strip(location["value"])
                               ELSE name
                  IN  After(<< [query |-> query] >>,
                            SearchThenDetails("places", search,
                                              Returned(ErrorDict("No restaurant found", name)),
                                              details))

\* search_restaurant_by_name, lines 88-151
search_restaurant_by_name(restaurant_name, location, search, details) ==
    ReturnsError(search_restaurant_by_name_Try(restaurant_name, location, search, details))

\* The try block of get_restaurant_details, lines 180-191
get_restaurant_details_Try(place_id, details) ==
    IF ~PyTruthy(place_id) \/ ~IsStr(place_id)
    THEN Logged(Returned(ErrorDict("Invalid input: place_id must be a non-empty string", <<>>)),
                <<>>)
    ELSE IF Len(Strip(place_id["value"])) < MinPlaceIdLength
    THEN Logged(Returned(ErrorDict("Invalid place_id format: place_id appears to be too short",
                                   <<>>)), <<>>)
    ELSE _get_detailed_place_info(Strip(place_id["value"]), details)

\* get_restaurant_details, lines 153-196: its handler names an invalid place_id.
get_restaurant_details(place_id, details) ==
    LET tried == get_restaurant_details_Try(place_id, details)
    IN  IF tried["out"]["kind"] = "raise"
        THEN Logged(Returned(
                        IF tried["out"]["error"]["msg"] = "INVALID_REQUEST"
                        THEN ErrorDict("Invalid place_id: not a valid Google Places identifier",
                                       Strip(place_id["value"]))
                        ELSE ErrorDict("Failed to retrieve restaurant details",
                                       <<tried["out"]["error"]["msg"]>>)),
                    tried["log"])
        ELSE tried

\* The tools registered with the agent (lines 26-33) and the arguments of each.
ToolArgs(tool) ==
    CASE tool = "extract_restaurant_from_maps_url" ->
            {[google_maps_url |-> u] : u \in GoogleMapsUrlArgs}
      [] tool = "search_restaurant_by_name" ->
            {[restaurant_name |-> n, location |-> l] :
                n \in RestaurantNameArgs, l \in LocationArgs}
      [] tool = "get_restaurant_details" ->
            {[place_id |-> i] : i \in PlaceIdArgs}

Tools == {"extract_restaurant_from_maps_url", "search_restaurant_by_name",
          "get_restaurant_details"}

\* The tool called is running.
Running(tool) ==
    /\ server = "serving"
    /\ "tool" \in DOMAIN tool_call
    /\ tool_call["tool"] = tool
    /\ tool_result = EmptyDict

\* An agent calls one of the tools, no tool running.
CallTool ==
    /\ server = "serving"
    /\ \A tool \in Tools : ~Running(tool)
    /\ \E tool \in Tools : \E args \in ToolArgs(tool) :
          tool_call' = [tool |-> tool, args |-> args]
    /\ tool_result' = EmptyDict
    /\ tool_trace' = <<>>
    /\ UNCHANGED <<server, workflows, response>>
    /\ UNCHANGED <<agnoVars, vwVars>>

\* The tool ran to its end: how it ended, and the API calls it made.
ToolRan(logged) ==
    /\ tool_result' = logged["out"]
    /\ tool_trace' = logged["log"]
    /\ UNCHANGED <<server, workflows, response, tool_call>>
    /\ UNCHANGED <<agnoVars, vwVars>>

ExtractRestaurantFromMapsUrl ==
    /\ Running("extract_restaurant_from_maps_url")
    /\ \E head \in HeadOutcomes, search \in SearchOutcomes, details \in ToolDetailsOutcomes :
          ToolRan(extract_restaurant_from_maps_url(tool_call["args"]["google_maps_url"],
                                                   head, search, details))

SearchRestaurantByName ==
    /\ Running("search_restaurant_by_name")
    /\ \E search \in SearchOutcomes, details \in ToolDetailsOutcomes :
          ToolRan(search_restaurant_by_name(tool_call["args"]["restaurant_name"],
                                            tool_call["args"]["location"], search, details))

GetRestaurantDetails ==
    /\ Running("get_restaurant_details")
    /\ \E details \in ToolDetailsOutcomes :
          ToolRan(get_restaurant_details(tool_call["args"]["place_id"], details))

-----------------------------------------------------------------------------

Init ==
    /\ pc = "idle"
    /\ video_style = "casual"
    /\ workflow_results = EmptyDict
    /\ locals = EmptyDict
    /\ calls = <<>>
    /\ started = <<>>
    /\ raised = ""
    /\ vpc = <<"workflow", "idle">>
    /\ entry = "none"
    /\ step = ""
    /\ input_data = EmptyDict
    /\ task_id = ""
    /\ outputs = EmptyDict
    /\ agent_input = EmptyDict
    /\ agent_out = EmptyDict
    /\ tmp = EmptyDict
    /\ fs = EmptyDict
    /\ result = EmptyDict
    /\ agent_calls = <<>>
    /\ agent_returns = <<>>
    /\ trace = EmptyDict
    /\ server = "down"
    /\ workflows = <<>>
    /\ response = EmptyDict
    /\ tool_call = EmptyDict
    /\ tool_result = EmptyDict
    /\ tool_trace = EmptyDict

Next ==
    \/ GeneratePromotionalVideo
    \/ ExtractRestaurantDataReturns
    \/ AnalyzeRestaurantCharacteristicsReturns
    \/ ExtractMenuDataReturns
    \/ RecommendFeaturedItemsReturns
    \/ GenerateVideoScriptReturns
    \/ CreateSocialMediaContentReturns
    \/ PlanVideoProductionReturns
    \/ PrepareVoiceoverGenerationReturns
    \/ GenerateProductionSummaryReturns
    \/ AgentCallRaises

Spec == Init /\ [][Next]_vars

NextVW ==
    \/ Run
    \/ AfterMapParser
    \/ AfterMenuExtractor
    \/ AfterScriptGenerator
    \/ AfterVideoGenerator
    \/ RunStepCall
    \/ RunStepEnds
    \/ MapParserRun
    \/ MapParserGetPlaceDetails
    \/ MenuExtractorRun
    \/ MenuExtractFromWebsite
    \/ MenuExtractFromPdf
    \/ ScriptGeneratorRun
    \/ ScriptGeneratorGenerateScript
    \/ VideoGeneratorRun
    \/ VideoGenerateVoiceover
    \/ VideoGenerateSceneImage
    \/ VideoAssemble
    \/ VideoGenerateThumbnail
    \/ VideoGetMetadataAndReturn

SpecVW == Init /\ [][NextVW]_vars

NextOS ==
    \/ ImportServer
    \/ GetCapabilities
    \/ HealthCheck
    \/ CallTool
    \/ ExtractRestaurantFromMapsUrl
    \/ SearchRestaurantByName
    \/ GetRestaurantDetails

SpecOS == Init /\ [][NextOS]_vars


-----------------------------------------------------------------------------
(* Claims about AgnoVideoWorkflow.generate_promotional_video *)

IsPrefix(s, t) == Len(s) <= Len(t) /\ \A i \in 1..Len(s) : s[i] = t[i]

Results == IF pc = "idle" THEN EmptyDict ELSE workflow_results["results"]

Completed(p) == pc # "idle" /\ workflow_results["phases"][p]["completed"]

\* C1: the four phases start in the fixed order restaurant_data, menu_analysis,
\* content_creation, video_production, none twice: the phases started so far are a
\* prefix of that order.  Every agent call belongs to a phase that has been started,
\* the calls of a phase follow those of the earlier phases, and a call of a phase has
\* been made only if every earlier phase is marked completed.  A run that ends with
\* status "completed" has started all four phases and made each one's primary call.
C1_PhasesStartInOrder ==
    /\ IsPrefix(started, PhaseOrder)
    /\ \A i \in 1..Len(calls) :
         LET p == PhaseOfCall(calls[i])
         IN  /\ \E j \in 1..Len(started) : started[j] = p
             /\ \A q \in Phases : PhaseIndex(q) < PhaseIndex(p) => Completed(q)
             /\ \A j \in 1..i : PhaseIndex(PhaseOfCall(calls[j])) <= PhaseIndex(p)
    /\ (pc = "returned" /\ workflow_results["status"] = "completed") =>
         /\ started = PhaseOrder
         /\ \A p \in Phases : \E i \in 1..Len(calls) : calls[i] = PrimaryCall(p)

\* C1 witness: a run that ended "completed" after the first call of the last phase.
C1_Witness ==
    /\ pc = "returned"
    /\ workflow_results["status"] = "completed"
    /\ \E i \in 1..Len(calls) : calls[i] = "plan_video_production"

\* The primary call of phase p has returned a status other than "success".
PrimaryFailed(p) ==
    /\ ResultLocal(p) \in DOMAIN locals
    /\ locals[ResultLocal(p)]["status"] # "success"

ReturnedEarlyAfter(call) ==
    /\ pc = "returned"
    /\ workflow_results["status"] = "error"
    /\ Last(calls) = call

\* C2 as stated: whenever the primary call of any of the four stages has returned a
\* status other than "success", the workflow has returned with status "error" and the
\* primary call of that stage is the last agent call made.
C2_Original_EveryPrimaryFailureReturnsEarly ==
    \A p \in Phases : PrimaryFailed(p) => ReturnedEarlyAfter(PrimaryCall(p))

\* C2 amended: the early return holds for the three stages whose status is inspected
\* (restaurant_data, content_creation, video_production); the status of
\* extract_menu_data is not inspected, and whatever it is the next agent call,
\* recommend_featured_items, is made.
C2_CheckedPrimaryFailureReturnsEarly ==
    /\ \A p \in Phases \ {"menu_analysis"} :
         PrimaryFailed(p) => ReturnedEarlyAfter(PrimaryCall(p))
    /\ "menu_data" \in DOMAIN locals =>
         \E i \in 1..(Len(calls) - 1) :
            calls[i] = "extract_menu_data" /\ calls[i + 1] = "recommend_featured_items"

\* C2 witness: generate_video_script reported an error and the workflow returned
\* early, after a menu stage whose status was not "success" either.
C2_Witness ==
    /\ PrimaryFailed("content_creation")
    /\ PrimaryFailed("menu_analysis")
    /\ ReturnedEarlyAfter("generate_video_script")

\* C4: at every await point and in the returned value, workflow_results["results"]
\* holds an entry under a phase's key exactly when the phase is marked completed, and
\* the entry is that phase's own output.
C4_ResultsMatchCompletedPhases ==
    pc # "idle" =>
        /\ DOMAIN Results = {ResultKey(p) : p \in {q \in Phases : Completed(q)}}
        /\ \A p \in Phases :
             Completed(p) => /\ Results[ResultKey(p)] = ResultLocal(p)
                             /\ ResultLocal(p) \in DOMAIN locals

\* C4 witness: suspended at the await of generate_video_script with two phases
\* completed and two entries stored.
C4_Witness ==
    /\ pc = "generate_video_script"
    /\ Cardinality(DOMAIN Results) = 2
    /\ Completed("menu_analysis")

\* C8: a step never removes or changes an entry already stored in
\* workflow_results["results"]: the key stays, it refers to the same dict, and the
\* dict's content is unchanged.
C8_StoredEntriesUnchanged ==
    [][\A k \in DOMAIN Results :
          /\ k \in DOMAIN Results'
          /\ Results'[k] = Results[k]
          /\ locals'[Results'[k]] = locals[Results[k]]]_vars

\* C8 witness: phase 4 failed after the three earlier phases stored their outputs.
C8_Witness ==
    /\ pc = "returned"
    /\ Get(workflow_results, "failed_phase", "") = "video_production"
    /\ DOMAIN Results = {"restaurant_data", "menu_data", "content_data"}

\* Phase p is marked completed=True with status "completed".
PhaseDone(p) ==
    /\ workflow_results["phases"][p]["completed"]
    /\ Get(workflow_results["phases"][p], "status", "") = "completed"

\* C15: generate_promotional_video never ends with an exception, and the status it
\* returns is "completed" or "error", never "in_progress".  It is "completed" exactly
\* when all four phases are marked completed=True with status "completed", and then
\* completion_time is present with total_seconds 315; before the return the status
\* is "in_progress".
C15_ReturnsCompletedOrError ==
    /\ pc # "raised"
    /\ pc \notin {"idle", "returned"} => workflow_results["status"] = "in_progress"
    /\ pc = "returned" =>
         /\ workflow_results["status"] \in {"completed", "error"}
         /\ workflow_results["status"] = "completed" <=> \A p \in Phases : PhaseDone(p)
         /\ workflow_results["status"] = "completed" =>
               /\ "completion_time" \in DOMAIN workflow_results
               /\ workflow_results["completion_time"]["total_seconds"] = 315
         /\ workflow_results["status"] = "error" =>
               "completion_time" \notin DOMAIN workflow_results

\* C15 witness: the exception of an agent call in the last phase was turned into a
\* returned status "error".
C15_Witness ==
    /\ pc = "returned"
    /\ raised # ""
    /\ workflow_results["status"] = "error"
    /\ Last(calls) = "generate_production_summary"

\* C15, the completed case: a run returned "completed" with its completion_time.
C15_WitnessCompleted ==
    /\ pc = "returned"
    /\ workflow_results["status"] = "completed"
    /\ workflow_results["completion_time"]["total_seconds"] = 315

\* The stages whose primary call's status is inspected.
CheckedPhases == {"restaurant_data", "content_creation", "video_production"}

\* C16: when a checked stage reported an error flag, generate_promotional_video has
\* returned status "error" with failed_phase naming that stage.  In a result with a
\* failed_phase, that phase has status "failed" and completed=False, every earlier
\* phase has completed=True and status "completed", every later phase has
\* completed=False and no status key, and error is the error text of the stage's
\* result, or "Unknown error" when that result has no "error" key.
C16_ErrorFlagResult ==
    /\ \A p \in CheckedPhases :
         PrimaryFailed(p) =>
            /\ pc = "returned"
            /\ "failed_phase" \in DOMAIN workflow_results
            /\ workflow_results["failed_phase"] = p
    /\ (pc # "idle" /\ "failed_phase" \in DOMAIN workflow_results) =>
         LET failed == workflow_results["failed_phase"]
             stage_result == locals[ResultLocal(failed)]
             phases == workflow_results["phases"]
         IN  /\ pc = "returned"
             /\ failed \in CheckedPhases
             /\ PrimaryFailed(failed)
             /\ workflow_results["status"] = "error"
             /\ phases[failed] = [completed |-> FALSE, status |-> "failed"]
             /\ \A p \in Phases :
                   /\ PhaseIndex(p) < PhaseIndex(failed) =>
                         phases[p] = [completed |-> TRUE, status |-> "completed"]
                   /\ PhaseIndex(p) > PhaseIndex(failed) => phases[p] = [completed |-> FALSE]
             /\ workflow_results["error"] =
                   (IF "error" \in DOMAIN stage_result THEN stage_result["error"]
                    ELSE "Unknown error")

\* C16 witness: generate_video_script reported an error and the workflow returned
\* with failed_phase content_creation.
C16_Witness ==
    /\ pc = "returned"
    /\ PrimaryFailed("content_creation")
    /\ Get(workflow_results, "failed_phase", "") = "content_creation"
    /\ workflow_results["error"] = locals["script_data"]["error"]

\* The phase being executed when the try block ended.
PhaseExecuting == PhaseOfCall(Last(calls))

\* C17: when an exception is raised inside a phase, generate_promotional_video has
\* returned status "error" with the exception's text as error and no failed_phase
\* key, and the phase being executed is left with status "in_progress" and
\* completed=False: a result with status "error" need not name a failed phase.
C17_ExceptionInPhase ==
    raised # "" =>
        /\ pc = "returned"
        /\ workflow_results["status"] = "error"
        /\ workflow_results["error"] = raised
        /\ "failed_phase" \notin DOMAIN workflow_results
        /\ workflow_results["phases"][PhaseExecuting] =
              [completed |-> FALSE, status |-> "in_progress"]
        /\ \A p \in Phases : Get(workflow_results["phases"][p], "status", "") # "failed"

\* C17 witness: extract_menu_data raised; the result has status "error" and no
\* failed_phase, and menu_analysis is still "in_progress".
C17_Witness ==
    /\ pc = "returned"
    /\ raised # ""
    /\ Last(calls) = "extract_menu_data"
    /\ workflow_results["status"] = "error"
    /\ "failed_phase" \notin DOMAIN workflow_results
    /\ workflow_results["phases"]["menu_analysis"]["status"] = "in_progress"

\* The secondary calls: the local each one's result is attached to, and the key.
SecondaryCalls ==
    { <<"analyze_restaurant_characteristics", "restaurant_data", "analysis">>,
      <<"recommend_featured_items", "menu_data", "featured_items">>,
      <<"create_social_media_content", "script_data", "social_content">>,
      <<"prepare_voiceover_generation", "production_plan", "voiceover">>,
      <<"generate_production_summary", "production_plan", "summary">> }

\* The result of a secondary call, as attached to its local.
Attached(sc) == locals[sc[2]][sc[3]]

\* C18: the statuses of the five secondary calls are never inspected.  A run in which
\* the three checked primary calls returned "success" and no exception was raised
\* returns status "completed" with all four phases completed, whatever the secondary
\* calls returned, and each secondary result, an error dict included, is attached
\* under its key to the dict stored in the results.
C18_SecondaryStatusesIgnored ==
    (/\ pc = "returned"
     /\ raised = ""
     /\ \A p \in CheckedPhases : ~PrimaryFailed(p)) =>
        /\ workflow_results["status"] = "completed"
        /\ \A p \in Phases : PhaseDone(p)
        /\ \A sc \in SecondaryCalls :
              /\ \E i \in 1..Len(calls) : calls[i] = sc[1]
              /\ sc[2] \in {Results[k] : k \in DOMAIN Results}
              /\ sc[3] \in DOMAIN locals[sc[2]]
              /\ Attached(sc)["status"] \in {"success", "error"}
              /\ Attached(sc)["status"] = "error" => "error" \in DOMAIN Attached(sc)

\* C18 witness: all five secondary calls returned status "error" and the workflow
\* returned "completed".
C18_Witness ==
    /\ pc = "returned"
    /\ workflow_results["status"] = "completed"
    /\ \A p \in Phases : PhaseDone(p)
    /\ \A sc \in SecondaryCalls : Attached(sc)["status"] = "error"

-----------------------------------------------------------------------------
(* Claims about VideoWorkflow.run and its agents *)

RunReturned == entry = "run" /\ vpc = <<"workflow", "returned">>

RunCompleted == RunReturned /\ result["value"]["status"] = "completed"

\* The agent whose run ended last ended it with an exception.
AgentRaised == "kind" \in DOMAIN agent_out /\ agent_out["kind"] = "raise"

AgentEnded(agent) == vpc = <<agent, "done">>

\* C3 as stated: the video file and the thumbnail file whose paths
\* VideoGeneratorAgent.run returns, and VideoWorkflow.run forwards, exist when the
\* result is returned.
C3_ReturnedArtefactsExist ==
    /\ (AgentEnded("video_generator") /\ agent_out["kind"] = "return") =>
         /\ Exists(fs, agent_out["value"]["video_path"])
         /\ Exists(fs, agent_out["value"]["thumbnail_path"])
    /\ RunCompleted =>
         /\ Exists(fs, result["value"]["video_path"])
         /\ Exists(fs, result["value"]["thumbnail_path"])

\* C5: run invokes the agents in the order map_parser, menu_extractor,
\* script_generator, video_generator, each at most once (the agents invoked are a
\* prefix of that order); an agent is invoked only when every agent invoked before it
\* has returned normally; and run returns "completed" only when all four have returned.
C5_AgentsInvokedInOrder ==
    entry = "run" =>
        /\ IsPrefix(agent_calls, AgentOrder)
        /\ IsPrefix(agent_returns, agent_calls)
        /\ Len(agent_calls) <= Len(agent_returns) + 1
        /\ RunCompleted => agent_returns = AgentOrder

\* C5 witness: a run that returned "completed".
C5_Witness == RunCompleted /\ Len(agent_calls) = 4

\* A key that a step of run reads from an earlier step's output is missing.
OutputKeyMissing ==
    \/ /\ "menu_data" \in DOMAIN outputs
       /\ \/ ~HasKeys(outputs["restaurant_info"], {"restaurant_name"})
          \/ ~HasKeys(outputs["menu_data"], {"menu"})
    \/ /\ "script_data" \in DOMAIN outputs
       /\ ~HasKeys(outputs["script_data"], {"script", "scenes", "style"})
    \/ /\ "video_result" \in DOMAIN outputs
       /\ ~HasKeys(outputs["video_result"],
                   {"video_path", "thumbnail_path", "duration", "file_size", "resolution"})

\* C6: run never ends with an exception.  When an agent raised, or "google_maps_url"
\* or a key read from an earlier step's output is missing, it returns exactly the keys
\* task_id, status = "failed" and error; otherwise it returns status "completed".
\* task_id is the input's task_id, or "workflow" when the input has none.
C6_RunAlwaysReturns ==
    entry = "run" =>
        /\ vpc # <<"workflow", "raised">>
        /\ RunReturned =>
             /\ result["kind"] = "return"
             /\ result["value"]["task_id"] =
                   (IF "task_id" \in DOMAIN input_data THEN input_data["task_id"] ELSE "workflow")
             /\ IF AgentRaised \/ "google_maps_url" \notin DOMAIN input_data \/ OutputKeyMissing
                THEN /\ DOMAIN result["value"] = {"task_id", "status", "error"}
                     /\ result["value"]["status"] = "failed"
                ELSE result["value"]["status"] = "completed"

\* C6 witness: an agent raised in a run whose input names a task_id, and run returned.
C6_Witness ==
    /\ RunReturned
    /\ AgentRaised
    /\ "task_id" \in DOMAIN input_data
    /\ Len(agent_calls) = 3

\* C7: in run, the dict every agent is called with has all the fields its
\* validate_input requires, and no agent, and so no run, fails with
\* "Missing required fields".
C7_BuiltInputsHaveRequiredFields ==
    entry = "run" =>
        /\ agent_calls # <<>> =>
              missing_fields(agent_input, RequiredFields(Last(agent_calls))) = <<>>
        /\ AgentRaised => agent_out["error"]["msg"] # "Missing required fields"
        /\ (RunReturned /\ result["value"]["status"] = "failed") =>
              result["value"]["error"]["msg"] # "Missing required fields"

\* C7 witness: the last agent, video_generator, has passed its validate_input in a run.
C7_Witness ==
    /\ entry = "run"
    /\ vpc = <<"video_generator", "voiceover">>

\* C9: _get_place_details never raises, and whenever the Places lookup fails (the
\* search raises or finds nothing, the details lookup raises or has no "result") it
\* returns the fixed placeholder record of _fallback_scraping.  MapParserAgent.run
\* raises only when "google_maps_url" is missing or no place information can be
\* extracted from the URL: no pattern matches it, or a coordinate it captures is no
\* number.
C9_PlaceDetailsNeverRaises ==
    /\ "place_lookup" \in DOMAIN trace =>
         /\ trace["place_lookup"]["ended"]["kind"] = "return"
         /\ trace["place_lookup"]["lookup"] = "raise" =>
               /\ trace["place_lookup"]["ended"]["value"] =
                     [restaurant_name |-> "Restaurant Name", address |-> "123 Main St",
                      website |-> "", phone |-> "", rating |-> "0.0", reviews_count |-> "0",
                      place_id |-> ""]
               /\ AgentEnded("map_parser") => agent_out = trace["place_lookup"]["ended"]
    /\ (AgentEnded("map_parser") /\ AgentRaised) =>
         \/ "google_maps_url" \notin DOMAIN agent_input
         \/ LET url == agent_input["google_maps_url"]
            IN  \/ url["place"] = <<>> /\ url["at"] = <<>> /\ url["data"] = <<>>
                \/ /\ url["place"] = <<>>
                   /\ \E c \in {"at", "data"} : \E i \in 1..Len(url[c]) : ~IsFloat(url[c][i])

\* C9 witness: the search found nothing and run returned the placeholder record.
C9_Witness ==
    /\ AgentEnded("map_parser")
    /\ "place_lookup" \in DOMAIN trace
    /\ trace["place_lookup"]["search"] = "empty"
    /\ agent_out["kind"] = "return"
    /\ agent_out["value"]["restaurant_name"] = "Restaurant Name"

\* C10: given both required fields, MenuExtractorAgent.run returns a non-empty menu
\* and an extraction_method among website, pdf, fallback that names what produced the
\* menu: "website" exactly when website extraction yielded a non-empty menu, which is
\* then the menu returned; the built-in sample menu with "fallback" whenever the
\* website is empty or every extraction attempted yielded nothing; with an empty
\* website no extraction is attempted.
C10_MenuAndMethod ==
    (AgentEnded("menu_extractor") /\ HasKeys(agent_input, {"website", "restaurant_name"})) =>
        LET m == trace["menu"]
            website_yielded ==
                /\ "website" \in DOMAIN m
                /\ m["website"]["kind"] = "list"
                /\ m["website"]["value"] # <<>>
            pdf_yielded ==
                /\ "pdf" \in DOMAIN m
                /\ m["pdf"]["kind"] = "list"
                /\ m["pdf"]["value"] # <<>>
            out == agent_out["value"]
        IN  /\ agent_out["kind"] = "return"
            /\ out["menu"] # <<>>
            /\ out["extraction_method"] \in {"website", "pdf", "fallback"}
            /\ out["extraction_method"] = "website" <=> website_yielded
            /\ website_yielded => out["menu"] = m["website"]["value"]
            /\ out["extraction_method"] = "pdf" <=> (~website_yielded /\ pdf_yielded)
            /\ (~website_yielded /\ pdf_yielded) => out["menu"] = m["pdf"]["value"]
            /\ (agent_input["website"] = "" \/ (~website_yielded /\ ~pdf_yielded)) =>
                  /\ out["extraction_method"] = "fallback"
                  /\ Len(out["menu"]) = 3
                  /\ out["menu"][1]["category"] = "Starters"
                  /\ out["menu"][2]["category"] = "Main Courses"
                  /\ out["menu"][3]["category"] = "Desserts"
            /\ agent_input["website"] = "" => m["attempted"] = <<>>
            /\ agent_input["website"] # "" => m["attempted"][1] = "website"

\* C10 witness: the website yielded an empty list, the PDF extraction was attempted,
\* and the sample menu was returned with "fallback".
C10_Witness ==
    /\ AgentEnded("menu_extractor")
    /\ "menu" \in DOMAIN trace
    /\ trace["menu"]["attempted"] = <<"website", "pdf">>
    /\ trace["menu"]["website"] = List(<<>>)
    /\ agent_out["kind"] = "return"
    /\ agent_out["value"]["extraction_method"] = "fallback"

-----------------------------------------------------------------------------
(* Claims about BaseAgent.validate_input *)

\* The agent running, or the one that ran last.
CurrentAgent == Last(agent_calls)

\* The agent's run is past its validate_input call.
Validated == agent_calls # <<>> /\ vpc # <<CurrentAgent, "run">>

\* The position of a field in a list of fields without repetition.
IndexIn(fields, f) == CHOOSE i \in 1..Len(fields) : fields[i] = f

\* The run ended with validate_input's ValueError.
RaisedMissingFields ==
    /\ AgentRaised
    /\ agent_out["error"]["type"] = "ValueError"
    /\ agent_out["error"]["msg"] = "Missing required fields"

\* C11: validate_input raises ValueError exactly when some required field is not a
\* key of the input; the message then lists the missing fields and no other, each
\* once, in the order of required_fields.  Otherwise it returns and the run goes on.
\* A key counts as present whatever its value (None, "", an empty list), and the
\* input dict is left as it was passed.
C11_ValidateInputExact ==
    Validated =>
        LET required == RequiredFields(CurrentAgent)
            absent == {required[i] : i \in 1..Len(required)} \ DOMAIN agent_input
        IN  /\ RaisedMissingFields <=> absent # {}
            /\ RaisedMissingFields =>
                  LET listed == agent_out["error"]["fields"]
                  IN  /\ {listed[i] : i \in 1..Len(listed)} = absent
                      /\ \A i, j \in 1..Len(listed) :
                            i < j => IndexIn(required, listed[i]) < IndexIn(required, listed[j])
            /\ entry = "run_step" => agent_input = input_data

\* C11 witness: script_generator was run with a menu only; the error lists
\* restaurant_name and style, in that order.
C11_Witness ==
    /\ RaisedMissingFields
    /\ CurrentAgent = "script_generator"
    /\ DOMAIN agent_input = {"menu"}
    /\ agent_out["error"]["fields"] = <<"restaurant_name", "style">>

\* C11, a key with an empty or None value: menu_extractor passed validate_input
\* with website "" and restaurant_name None.
C11_WitnessEmptyValues ==
    /\ Validated
    /\ CurrentAgent = "menu_extractor"
    /\ agent_input = [website |-> "", restaurant_name |-> NoneName]
    /\ ~RaisedMissingFields

-----------------------------------------------------------------------------
(* Claims about VideoWorkflow.run_step *)

RunStepEnded == entry = "run_step" /\ vpc[1] = "workflow"

\* C13: for a step name other than map_parser, menu_extractor, script_generator and
\* video_generator, run_step raises ValueError "Unknown step" and no agent is invoked.
\* For one of the four it invokes the agent of that name, once and no other, with the
\* dict it was given, and it ends as that agent's run ended: it returns the value the
\* agent returned, or raises the exception the agent raised.
C13_RunStepDispatches ==
    entry = "run_step" =>
        IF step \notin {"map_parser", "menu_extractor", "script_generator", "video_generator"}
        THEN /\ agent_calls = <<>>
             /\ vpc = <<"workflow", "raised">>
             /\ result["kind"] = "raise"
             /\ result["error"]["type"] = "ValueError"
             /\ result["error"]["msg"] = "Unknown step"
        ELSE /\ agent_calls = <<step>>
             /\ agent_input = input_data
             /\ RunStepEnded =>
                   /\ result = agent_out
                   /\ vpc[2] = (IF agent_out["kind"] = "raise" THEN "raised" ELSE "returned")
             /\ ~RunStepEnded => (vpc[1] = step /\ result = EmptyDict)

\* C13 witness: run_step("video_generator", ...) ended with the exception the agent
\* raised when a fallback step failed.
C13_Witness ==
    /\ RunStepEnded
    /\ step = "video_generator"
    /\ result["kind"] = "raise"
    /\ result["error"]["type"] = "Error"

-----------------------------------------------------------------------------
(* Claims about RestaurantDataTools *)

\* A tool call has run to its end.
ToolEnded == "tool" \in DOMAIN tool_call /\ tool_result # EmptyDict

\* The Places API calls of the last tool call that ended in the way named.
ApiCallsEnded(how) ==
    {i \in 1..Len(tool_trace) : "ended" \in DOMAIN tool_trace[i] /\ tool_trace[i]["ended"] = how}

\* An argument that is no str, or a str with fewer than n characters other than the
\* blanks around it.
NoStrOfLength(x, n) == x["kind"] # "str" \/ Len(Strip(x["value"])) < n

\* The arguments of the last tool call fail the tool's validation.
InvalidToolArgs ==
    LET args == tool_call["args"]
    IN  CASE tool_call["tool"] = "extract_restaurant_from_maps_url" ->
                \/ args["google_maps_url"]["kind"] # "str"
                \/ args["google_maps_url"]["value"] = <<>>
                \/ args["google_maps_url"]["value"]["host"] = "example.com"
          [] tool_call["tool"] = "search_restaurant_by_name" ->
                \/ NoStrOfLength(args["restaurant_name"], 2)
                \/ args["location"] = PyInt("7")
          [] tool_call["tool"] = "get_restaurant_details" ->
                NoStrOfLength(args["place_id"], 10)

\* C12: the three public tools of RestaurantDataTools never raise.  A call whose
\* arguments fail validation, whose search finds nothing or in which a Places API
\* call raises returns a dict with an "error" key, and a dict without "error" is
\* returned only when the last API call made is a place-details lookup that
\* succeeded; a call that fails validation makes no API call.
C12_ToolsNeverRaise ==
    ToolEnded =>
        /\ tool_result["kind"] = "return"
        /\ (InvalidToolArgs \/ ApiCallsEnded("empty") # {} \/ ApiCallsEnded("raised") # {})
              => "error" \in DOMAIN tool_result["value"]
        /\ "error" \notin DOMAIN tool_result["value"] =>
              /\ tool_trace # <<>>
              /\ Last(tool_trace) = [api |-> "place", ended |-> "ok"]
              /\ DOMAIN tool_result["value"] =
                    {"restaurant_name", "address", "website", "phone", "rating",
                     "reviews_count", "place_id", "price_level", "opening_hours"}
        /\ InvalidToolArgs => tool_trace = <<>>

\* C12 witness: extract_restaurant_from_maps_url found the place, the details lookup
\* raised, and the tool returned an error dict.
C12_Witness ==
    /\ ToolEnded
    /\ tool_call["tool"] = "extract_restaurant_from_maps_url"
    /\ Len(tool_trace) = 2
    /\ tool_trace[2] = [api |-> "place", ended |-> "raised"]
    /\ tool_result["kind"] = "return"
    /\ "error" \in DOMAIN tool_result["value"]

-----------------------------------------------------------------------------
(* Claims about the workflow factories and GET /capabilities *)

\* The names of a workflow's steps, in order.
StepsOf(workflow) == [i \in 1..Len(workflow["steps"]) |-> workflow["steps"][i]["name"]]

WorkflowIds == {workflows[i]["id"] : i \in 1..Len(workflows)}

\* C14: the server is given three workflows with fixed linear step lists: the
\* complete one with restaurant_analysis, menu_analysis, content_creation,
\* video_production; the script-only one with restaurant_analysis, menu_analysis,
\* script_generation and no production step; the analysis one with restaurant_analysis
\* alone.  Their ids are pairwise distinct, and the workflows GET /capabilities
\* advertises are exactly those ids, each entry carrying its own id.
C14_WorkflowsAndCapabilities ==
    server = "serving" =>
        /\ Len(workflows) = 3
        /\ StepsOf(workflows[1]) =
              <<"restaurant_analysis", "menu_analysis", "content_creation", "video_production">>
        /\ StepsOf(workflows[2]) = <<"restaurant_analysis", "menu_analysis", "script_generation">>
        /\ StepsOf(workflows[3]) = <<"restaurant_analysis">>
        /\ Cardinality(WorkflowIds) = 3
        /\ "workflows" \in DOMAIN response =>
              /\ DOMAIN response["workflows"] = WorkflowIds
              /\ \A id \in WorkflowIds : response["workflows"][id]["id"] = id

\* C14 witness: the server answered GET /capabilities.
C14_Witness ==
    /\ server = "serving"
    /\ Len(workflows) = 3
    /\ "workflows" \in DOMAIN response
    /\ Cardinality(DOMAIN response["workflows"]) = 3

-----------------------------------------------------------------------------
(* Claims about the fallbacks of VideoGeneratorAgent.run *)

\* The sub-step VideoGeneratorAgent.run is at, "-" when it is not running.
VideoStep == IF vpc[1] = "video_generator" THEN vpc[2] ELSE "-"

\* The primary sub-steps of this run that failed.
FailedPrimaries == IF "video" \in DOMAIN trace THEN trace["video"]["fallbacks"] ELSE {}

\* What the file the run keeps under key holds.
Held(key) == fs[tmp[key]]

\* The exceptions of the fallback steps.
FallbackErrors == {ToolError(what) : what \in {"silent audio", "placeholder image",
                                               "fallback video"}}

\* C19: VideoGeneratorAgent.run replaces every failing primary sub-step by its
\* fallback and goes on: after a failed voiceover the audio is 30 s of silence, after
\* a failed image download the scene's image is a placeholder image, after a failed
\* assembly the video is the fallback video, after a failed thumbnail extraction the
\* thumbnail is a placeholder image, and after a failed probe the returned metadata
\* is 30.0, 0, "1920x1080".  The run raises only when a required field is missing
\* from its input or a fallback step itself failed.
C19_FallbacksReplaceFailures ==
    /\ VideoStep \in {"images", "assemble", "thumbnail", "metadata"} =>
          Held("audio_path") = (IF "voiceover" \in FailedPrimaries
                                THEN "30 s of silence" ELSE "voiceover")
    /\ VideoStep \in {"assemble", "thumbnail", "metadata"} =>
          LET image_paths == tmp["image_paths"]
          IN  /\ Len(image_paths) = Len(agent_input["scenes"])
              /\ \A i \in 1..Len(image_paths) :
                    fs[image_paths[i]] \in {"stock image", "placeholder image"}
              /\ "image" \in FailedPrimaries <=>
                    \E i \in 1..Len(image_paths) : fs[image_paths[i]] = "placeholder image"
    /\ VideoStep \in {"thumbnail", "metadata"} =>
          Held("video_path") = (IF "assembly" \in FailedPrimaries
                                THEN "fallback video" ELSE "promo video")
    /\ VideoStep = "metadata" =>
          Held("thumbnail_path") = (IF "thumbnail" \in FailedPrimaries
                                    THEN "placeholder image" ELSE "video frame")
    /\ (VideoStep = "done" /\ agent_out["kind"] = "return") =>
          /\ agent_out["value"]["video_path"] = tmp["video_path"]
          /\ agent_out["value"]["thumbnail_path"] = tmp["thumbnail_path"]
          /\ "metadata" \in FailedPrimaries =>
                /\ agent_out["value"]["duration"] = "30.0"
                /\ agent_out["value"]["file_size"] = "0"
                /\ agent_out["value"]["resolution"] = "1920x1080"
    /\ (VideoStep = "done" /\ agent_out["kind"] = "raise") =>
          \/ /\ RaisedMissingFields
             /\ {"script", "scenes", "restaurant_name"} \ DOMAIN agent_input # {}
          \/ agent_out["error"] \in FallbackErrors

\* C19 witness: every primary sub-step failed, every fallback worked, and the run
\* returned the fallback video, the placeholder thumbnail and the default metadata.
C19_Witness ==
    /\ VideoStep = "done"
    /\ agent_out["kind"] = "return"
    /\ FailedPrimaries = {"voiceover", "image", "assembly", "thumbnail", "metadata"}
    /\ agent_out["value"]["duration"] = "30.0"

\* C19, the run raised because the fallback video could not be made either.
C19_WitnessFallbackFailed ==
    /\ VideoStep = "done"
    /\ agent_out["kind"] = "raise"
    /\ agent_out["error"] = ToolError("fallback video")
    /\ "assembly" \in FailedPrimaries

====
